---- MODULE Spec2Model ----
(***************************************************************************)
(* The grid-world simulation environments of playgroundrl (src/train):     *)
(* BunnyGardenEnv, GridWorldEnv, WarehouseBotsEnv, SwarmDronesEnv,         *)
(* ReefGuardiansEnv and SnowplowFleetEnv, each as the state machine of its *)
(* reset() and step() methods.                                             *)
(*                                                                         *)
(* One engine instance is modelled; Init constructs it for one scenario    *)
(* and one level configuration, and the state holds that engine's fields.  *)
(*                                                                         *)
(* Numbers.  The code computes with floats.  The model is fixed point:     *)
(* positions and resources are integers in thousandths (Unit = 1.0), so    *)
(* energy 1.0 is 1000 and the 0.002 decay is 2; rewards are integers in    *)
(* hundredths (the 0.01 step cost is 1).  Headings are integer multiples   *)
(* of the scenario's turn constant, and cos/sin of those multiples are     *)
(* tabulated in thousandths.  The ticks on which a resource decaying from  *)
(* 1.0 reaches 0 are the same in IEEE doubles and in this fixed point      *)
(* (500, 100, 67, 200 for 0.002, 0.01, 0.015, 0.005).                      *)
(***************************************************************************)
EXTENDS Integers, Sequences, FiniteSets, TLC

VARIABLES
    scn,              \* which environment class was constructed
    level_config,     \* the level the constructor parsed
    driver,           \* how the caller drives the episode (see Batches)
    agent_pos,        \* agent -> <<x, y>> in thousandths
    resource,         \* agent -> [resource name -> value in thousandths]
    agent_angle,      \* agent -> heading, in turn units
    history,          \* agent -> set of cells (visited_cells / cleared_cells)
    step_count,       \* self.step_count / self.steps
    current_goal_idx, \* BunnyGardenEnv.current_goal_idx
    current_goal,     \* BunnyGardenEnv.current_goal, a cell
    moving_obstacles, \* GridWorldEnv.moving_obstacles: id -> [x, y, t]
    call,             \* the last call made on the engine and its arguments
    ret,              \* what the last step() returned
    ev,               \* what the last step() decided for each agent
    k,                \* step() calls since construction or the last reset()
    faulted,          \* a step() call has raised since then
    numpy,            \* how the build's numpy treats ragged input
    generator,        \* the state of np.random, the process-wide generator
    cumulative_reward \* the greedy caller's sum of the rewards of the episode

vars == <<scn, level_config, driver, agent_pos, resource, agent_angle, history,
          step_count, current_goal_idx, current_goal, moving_obstacles, call,
          ret, ev, k, faulted, numpy, generator,
          cumulative_reward>>

-----------------------------------------------------------------------------
(* Bounds of the exploration *)

\* step() calls explored after the tick that first returned truncated
Overrun == 2

\* ticks per episode for which the "explore" driver issues arbitrary actions
FreeTicks == 3

\* step() calls explored on one GridWorld level2 engine (its obstacle clock
\* is never reset)
MaxObstacleTicks == 16

-----------------------------------------------------------------------------
(* Program constants *)

Unit == 1000

grid_size == 25
GRID_SIZE == 25

max_steps == 500
gridworld_max_steps == 100

warehouse_num_agents == 3
swarm_num_agents == 4
reef_num_agents == 6
snowplow_num_agents == 2

Scenarios == {"bunny", "gridworld", "warehouse", "swarm", "reef", "snowplow"}

num_agents(s) ==
    CASE s = "warehouse" -> warehouse_num_agents
      [] s = "swarm"     -> swarm_num_agents
      [] s = "reef"      -> reef_num_agents
      [] s = "snowplow"  -> snowplow_num_agents
      [] OTHER           -> 1

Agents(s) == 0 .. (num_agents(s) - 1)

MaxSteps(s) == IF s = "gridworld" THEN gridworld_max_steps ELSE max_steps

-----------------------------------------------------------------------------
(* Arithmetic helpers *)

Min(a, b) == IF a < b THEN a ELSE b
Max(a, b) == IF a > b THEN a ELSE b

\* np.clip(v, lo, hi)
Clip(v, lo, hi) == Max(lo, Min(hi, v))

\* int(v) for a value in thousandths: truncation toward zero
Trunc(v) == IF v >= 0 THEN v \div Unit ELSE -((-v) \div Unit)

\* the cell (int(x), int(y)) of a position
CellOf(p) == <<Trunc(p[1]), Trunc(p[2])>>

\* np.array(cell, dtype=np.float32): a configured cell as a position
PosOf(c) == <<c[1] * Unit, c[2] * Unit>>

\* mutant: the goal is reached at a distance of 1.0 too
MutDistLe1(goal, p) ==
    LET dx == goal[1] * Unit - p[1]
        dy == goal[2] * Unit - p[2]
    IN  dx * dx + dy * dy <= Unit * Unit

\* np.linalg.norm(goal - pos) < 1.0, goal a configured cell
DistLt1(goal, p) ==
    LET dx == goal[1] * Unit - p[1]
        dy == goal[2] * Unit - p[2]
    IN  dx * dx + dy * dy < Unit * Unit

-----------------------------------------------------------------------------
(* The callers explored.  The driver of a state is "any" (any action at    *)
(* any tick), "explore" (any action, episodes of at most FreeTicks ticks), *)
(* "endurance" (a few actions, repeated for the whole step budget and      *)
(* Overrun ticks beyond it) or "greedy" (BunnyGarden only: moves toward    *)
(* the goal, in any order, for as long as there is one; this caller sums   *)
(* the rewards of the episode) or "route" (GridWorld only: DOWN and RIGHT, *)
(* the two moves from the start toward the goal, for the length of the     *)
(* walk and Overrun ticks beyond it) or "trainer" (BunnyGarden and         *)
(* WarehouseBots on their default levels: the loop of                      *)
(* DQNTrainer.collect_experience and PPOTrainer.collect_rollout).          *)

\* the moves from GridWorld's start (1, 1) to its goal (23, 23), and the
\* ticks the "route" caller goes on for
RouteMoves == 2 * ((GRID_SIZE - 2) - 1)
RouteTicks == RouteMoves + Overrun

\* "done = terminated or truncated" (collect_experience) and "if terminated
\* or truncated" (collect_rollout), on the flags the last step() returned
Done == ret.terminated[0] \/ ret.truncated[0]

\* A multi-agent step() returns its flags as arrays of num_agents elements:
\* "terminated or truncated" takes the truth value of an array of more than
\* one element, a ValueError that ends the trainer after its first step().
TrainerRaised == num_agents(scn) > 1 /\ call.op = "step"

\* mutant: the loop goes on to the next step() whatever the flags were
MutCollectStepsIgnoresDone ==
    call.op = "reset" \/ (call.op = "step" /\ ~TrainerRaised)

\* The trainer issues a step() in the body of "for _ in range(num_steps)":
\* after the reset() that opens the collection or follows an ended episode,
\* or after a step() that did not end the episode.
CollectSteps ==
    call.op = "reset" \/ (call.op = "step" /\ ~TrainerRaised /\ ~Done)

\* The trainer issues a reset() when a collection begins (num_steps is the
\* caller's, so the previous collection ended after any number of steps)
\* and in the loop after an ended episode; never once it has raised.
CollectResets == ~TrainerRaised

\* the ticks the caller of the state's driver goes on to
StepExplored(budget) ==
    CASE driver = "explore" -> step_count < FreeTicks
      [] driver = "route"   -> step_count < RouteTicks
      [] driver = "trainer" -> CollectSteps /\ step_count < budget + Overrun
      [] OTHER              -> step_count < budget + Overrun

-----------------------------------------------------------------------------
(* Level configurations (the level_config argument of the constructors).   *)
(* A configuration is the parsed level: the set static_obstacles and the   *)
(* lists goal_positions and start_positions, in cells.                     *)

\* The constructors read the level with level_config.get(field, []): a
\* field the level omits is read as empty.  gridSize is kept as given (no
\* constructor reads it), and "given" records the fields the level has.
ParseLevel(raw) ==
    [static_obstacles |-> IF "staticObstacles" \in DOMAIN raw
                          THEN raw.staticObstacles ELSE {},
     goal_positions   |-> IF "goalPositions" \in DOMAIN raw
                          THEN raw.goalPositions ELSE <<>>,
     start_positions  |-> IF "startPositions" \in DOMAIN raw
                          THEN raw.startPositions ELSE <<>>,
     gridSize         |-> IF "gridSize" \in DOMAIN raw THEN raw.gridSize ELSE 0,
     given            |-> DOMAIN raw]

\* a level with all four fields, gridSize 25
Config(obstacles, goals, starts) ==
    ParseLevel([gridSize |-> grid_size, staticObstacles |-> obstacles,
                goalPositions |-> goals, startPositions |-> starts])

\* a 2x2 room in the low corner of the garden, two goals
BunnyLowRoom ==
    Config({<<2, y>> : y \in 0..2} \cup {<<x, 2>> : x \in 0..2},
           <<(<<0, 1>>), (<<0, 0>>)>>, <<(<<1, 1>>)>>)

\* a 2x2 room in the high corner of the garden, one goal
BunnyHighRoom ==
    Config({<<22, y>> : y \in 22..24} \cup {<<x, 22>> : x \in 22..24},
           <<(<<24, 24>>)>>, <<(<<23, 23>>)>>)

\* the level __init__ uses when it is passed no level_config
BunnyDefaultLevel ==
    Config({<<5, 5>>, <<5, 6>>, <<5, 7>>, <<10, 10>>, <<10, 11>>, <<15, 15>>},
           <<(<<23, 23>>)>>, <<(<<1, 1>>)>>)

\* a level that declares a 3x3 grid and has no staticObstacles field
BunnySmallLevel ==
    ParseLevel([gridSize |-> 3, goalPositions |-> <<(<<2, 2>>)>>,
                startPositions |-> <<(<<1, 1>>)>>])

\* levels without goals, or without a goalPositions field
BunnyNoGoals ==
    {ParseLevel([gridSize |-> grid_size, staticObstacles |-> {},
                 goalPositions |-> <<>>, startPositions |-> <<(<<1, 1>>)>>]),
     ParseLevel([gridSize |-> grid_size, staticObstacles |-> {},
                 startPositions |-> <<(<<1, 1>>)>>])}

\* the garden without obstacles: start (1, 1), one goal (23, 23)
BunnyOpenLevel == Config({}, <<(<<23, 23>>)>>, <<(<<1, 1>>)>>)

BunnyConfigs ==
    {BunnyLowRoom, BunnyHighRoom, BunnyDefaultLevel, BunnySmallLevel,
     BunnyOpenLevel}
        \cup BunnyNoGoals

-----------------------------------------------------------------------------
(* BunnyGardenEnv *)

\* mutant: the upper boundary test is off by one
MutIsBlockedOffByOne(x, y) ==
    \/ x < 0 \/ x > grid_size \/ y < 0 \/ y > grid_size
    \/ <<x, y>> \in level_config.static_obstacles

\* BunnyGardenEnv._is_blocked(x, y), x and y cells
_is_blocked(x, y) ==
    \/ x < 0 \/ x >= grid_size \/ y < 0 \/ y >= grid_size
    \/ <<x, y>> \in level_config.static_obstacles

\* the position step() proposes for an action: up/down/left/right, clamped
BunnyProposal(p, action) ==
    CASE action = 0 -> <<p[1], Min((grid_size - 1) * Unit, p[2] + Unit)>>
      [] action = 1 -> <<p[1], Max(0, p[2] - Unit)>>
      [] action = 2 -> <<Max(0, p[1] - Unit), p[2]>>
      [] action = 3 -> <<Min((grid_size - 1) * Unit, p[1] + Unit), p[2]>>
      [] OTHER      -> p

\* the collision check of step(): is the proposal's cell blocked
BunnyBlocked(p, action) ==
    LET new_pos == BunnyProposal(p, action)
    IN  _is_blocked(Trunc(new_pos[1]), Trunc(new_pos[2]))

\* mutant: the proposal is taken without the collision check
MutBunnyMoveUnchecked(p, action) == BunnyProposal(p, action)

\* the position after the collision check: the proposal unless it is blocked
BunnyMove(p, action) ==
    IF ~BunnyBlocked(p, action) THEN BunnyProposal(p, action) ELSE p

\* the goal at an index of goal_positions (0-based, as in the code)
GoalAt(idx) == level_config.goal_positions[idx + 1]

\* mutant: the index stops at the last goal instead of wrapping to 0
MutNextGoalIdxNoWrap(p, idx) ==
    IF DistLt1(current_goal, p)
    THEN Min(idx + 1, Len(level_config.goal_positions) - 1)
    ELSE idx

\* the goal index after "if dist_to_goal < 1.0" on the position after the move
BunnyNextGoalIdx(p, idx) ==
    IF DistLt1(current_goal, p)
    THEN (idx + 1) % Len(level_config.goal_positions)
    ELSE idx

\* energy = max(0.0, energy - 0.002)
BunnyDecay(e) == Max(0, e - 2)

\* mutant: terminated = self.energy < 0
MutExhaustedStrict(r) == r < 0

\* mutant: truncation suppresses termination on the tick that truncates
MutExhaustedUnlessTruncated(r) == r <= 0 /\ step_count + 1 < max_steps

\* terminated = self.energy <= 0
ResourceExhausted(r) == r <= 0

\* mutant: truncated = self.step_count > self.max_steps
MutTruncatedStrict(count, budget) == count > budget

\* mutant: truncated = self.step_count == self.max_steps
MutTruncatedOnlyAt(count, budget) == count = budget

\* truncated = self.step_count >= self.max_steps
Truncated(count, budget) == count >= budget

\* the values the explored callers pass as a discrete action to BunnyGarden
\* and GridWorld; 4 is outside the action space
DiscreteInputs == 0 .. 4

\* the moves of an action batch toward the goal: the actions whose proposal
\* is nearer to the current goal than the position is
GreedyMoves(p) ==
    LET far(q) == (current_goal[1] * Unit - q[1]) * (current_goal[1] * Unit - q[1])
                  + (current_goal[2] * Unit - q[2]) * (current_goal[2] * Unit - q[2])
    IN  {action \in 0 .. 3 : far(BunnyProposal(p, action)) < far(p)}

\* the actions the caller of the state's driver passes to BunnyGarden; of
\* the trainer's action_space.sample(), up and down are followed
BunnyInputs ==
    CASE driver = "greedy"  -> GreedyMoves(agent_pos[0])
      [] driver = "trainer" -> {0, 1}
      [] OTHER              -> DiscreteInputs

BunnyStep(action) ==
    LET count  == step_count + 1
        energy == BunnyDecay(resource[0].energy)
        p      == BunnyMove(agent_pos[0], action)
        hit    == DistLt1(current_goal, p)
        reward == -1 + (IF hit THEN 100 ELSE 0)
    IN  /\ scn = "bunny"
        /\ StepExplored(max_steps)
        /\ action \in BunnyInputs
        /\ cumulative_reward' = IF driver = "greedy"
                                THEN cumulative_reward + reward
                                ELSE cumulative_reward
        /\ step_count' = count
        /\ resource' = [resource EXCEPT ![0].energy = energy]
        /\ agent_pos' = [agent_pos EXCEPT ![0] = p]
        /\ current_goal_idx' = BunnyNextGoalIdx(p, current_goal_idx)
        /\ current_goal' = GoalAt(BunnyNextGoalIdx(p, current_goal_idx))
        /\ call' = [op |-> "step", actions |-> <<action>>]
        /\ ret' = [reward     |-> [i \in {0} |-> reward],
                   terminated |-> [i \in {0} |-> ResourceExhausted(energy)],
                   truncated  |-> [i \in {0} |-> Truncated(count, max_steps)]]
        /\ ev' = [blocked |-> [i \in {0} |->
                                 BunnyBlocked(agent_pos[0], action)],
                  goal    |-> [i \in {0} |-> hit]]
        /\ k' = k + 1
        /\ faulted' = faulted
        /\ UNCHANGED <<scn, numpy, generator, level_config, driver, agent_angle, history,
                       moving_obstacles>>

\* mutant: reset() leaves the goal index where the episode left it
MutBunnyResetKeepsGoal ==
    /\ scn = "bunny"
    /\ agent_pos' = [i \in {0} |-> PosOf(level_config.start_positions[1])]
    /\ resource' = [i \in {0} |-> [energy |-> Unit]]
    /\ step_count' = 0
    /\ call' = [op |-> "reset", actions |-> <<>>]
    /\ k' = 0
    /\ faulted' = FALSE
    /\ cumulative_reward' = 0
    /\ UNCHANGED <<scn, numpy, generator, level_config, driver, agent_angle, history,
                   moving_obstacles, ret, ev, current_goal_idx, current_goal>>

BunnyReset ==
    /\ scn = "bunny"
    /\ agent_pos' = [i \in {0} |-> PosOf(level_config.start_positions[1])]
    /\ resource' = [i \in {0} |-> [energy |-> Unit]]
    /\ step_count' = 0
    /\ current_goal_idx' = 0
    /\ current_goal' = GoalAt(0)
    /\ call' = [op |-> "reset", actions |-> <<>>]
    /\ k' = 0
    /\ faulted' = FALSE
    /\ cumulative_reward' = 0
    /\ UNCHANGED <<scn, numpy, generator, level_config, driver, agent_angle, history,
                   moving_obstacles, ret, ev>>

-----------------------------------------------------------------------------
(* GridWorldEnv *)

Border ==
    UNION {{<<i, 0>>, <<i, GRID_SIZE - 1>>, <<0, i>>, <<GRID_SIZE - 1, i>>} :
           i \in 0 .. (GRID_SIZE - 1)}

\* GridWorldEnv._init_level_one: the border and three interior walls
LevelOneObstacles ==
    Border \cup {<<6, 2 + i>> : i \in 0..11}
           \cup {<<12, 3 + i>> : i \in 0..9}
           \cup {<<18, 2 + i>> : i \in 0..11}

\* GridWorldEnv._init_level_two: the border only
LevelTwoObstacles == Border

\* the level a GridWorldEnv is constructed with, as a configuration:
\* agent_pos = [1, 1] and goal_pos = [23, 23] are fixed by the constructor
GridConfig(level) ==
    [static_obstacles |-> IF level = "level1" THEN LevelOneObstacles
                          ELSE LevelTwoObstacles,
     goal_positions   |-> <<(<<23, 23>>)>>,
     start_positions  |-> <<(<<1, 1>>)>>,
     level            |-> level]

GridConfigs == {GridConfig("level1"), GridConfig("level2")}

ObstacleIds == {"mov1", "mov2", "mov3"}

\* The cell of each level2 obstacle after n calls of
\* _update_moving_obstacles, n = 1 .. 40:
\*   t += 0.1; progress = (sin((t + phase) * speed) + 1) / 2;
\*   x = int(min_x + (max_x - min_x) * progress), likewise y,
\* evaluated in IEEE doubles with the paths, speeds and phases of
\* _init_level_two.  mov1 moves on y = 5, mov2 on x = 12, mov3 on y = 19.
Mov1X ==
    <<12, 13, 14, 14, 15, 15, 15, 15, 15, 15, 15, 14, 14, 13, 12, 11, 10, 10,
      9, 8, 8, 8, 8, 8, 8, 8, 8, 9, 10, 10, 11, 12, 13, 13, 14, 15, 15, 15,
      15, 15>>

Mov3X ==
    <<14, 12, 11, 9, 8, 7, 6, 6, 6, 6, 6, 7, 8, 10, 11, 13, 14, 15, 16, 17,
      17, 17, 17, 16, 15, 14, 13, 11, 10, 8, 7, 6, 6, 6, 6, 6, 7, 8, 10, 11>>

ObstacleCell(id, n) ==
    CASE id = "mov1" -> <<Mov1X[n], 5>>
      [] id = "mov2" -> <<12, Mov1X[n]>>
      [] id = "mov3" -> <<Mov3X[n], 19>>

\* the moving obstacles a level starts with: t = 0 and the listed x, y
InitialObstacles(level) ==
    IF level = "level2"
    THEN [id \in ObstacleIds |->
            [x |-> 12, y |-> CASE id = "mov1" -> 5 [] id = "mov2" -> 12
                               [] id = "mov3" -> 19,
             t |-> 0]]
    ELSE [id \in {} |-> [x |-> 0, y |-> 0, t |-> 0]]

\* GridWorldEnv._update_moving_obstacles; t counts the 0.1 increments
_update_moving_obstacles(obstacles) ==
    [id \in DOMAIN obstacles |->
        LET n == obstacles[id].t + 1
        IN  [x |-> ObstacleCell(id, n)[1], y |-> ObstacleCell(id, n)[2],
             t |-> n]]

\* mutant: the occupied cells are those of the end of the previous tick
MutOccupiedBeforeAdvance(obstacles) ==
    level_config.static_obstacles
        \cup {<<moving_obstacles[id].x, moving_obstacles[id].y>> :
                  id \in DOMAIN moving_obstacles}

\* GridWorldEnv._get_occupied_cells
_get_occupied_cells(obstacles) ==
    level_config.static_obstacles
        \cup {<<obstacles[id].x, obstacles[id].y>> : id \in DOMAIN obstacles}

\* the move of step(): UP is y - 1, DOWN y + 1, LEFT x - 1, RIGHT x + 1
GridProposal(p, action) ==
    CASE action = 0 -> <<p[1], Max(0, p[2] - Unit)>>
      [] action = 1 -> <<p[1], Min((GRID_SIZE - 1) * Unit, p[2] + Unit)>>
      [] action = 2 -> <<Max(0, p[1] - Unit), p[2]>>
      [] action = 3 -> <<Min((GRID_SIZE - 1) * Unit, p[1] + Unit), p[2]>>
      [] OTHER      -> p

\* hit_obstacle = tuple(self.agent_pos) in occupied
GridHit(p, occupied) == CellOf(p) \in occupied

\* mutant: a rejected move is not reverted
MutGridMoveNoRevert(old_pos, moved, occupied) == moved

\* the position after "if hit_obstacle: self.agent_pos = old_pos"
GridMove(old_pos, moved, occupied) ==
    IF GridHit(moved, occupied) THEN old_pos ELSE moved

\* mutant: the goal is tested before the hit
MutRewardGoalFirst(done, hit_obstacle) ==
    IF done THEN 100 ELSE IF hit_obstacle THEN -100 ELSE -1

\* GridWorldEnv._compute_reward, in hundredths
_compute_reward(done, hit_obstacle) ==
    IF hit_obstacle THEN -100 ELSE IF done THEN 100 ELSE -1

\* terminated = reached_goal or hit_obstacle
GridTerminated(reached_goal, hit_obstacle) == reached_goal \/ hit_obstacle

\* The actions the callers of GridWorld pass: any of DiscreteInputs while
\* exploring; through a full-length episode UP, which from (1, 1) runs into
\* the border, and the out-of-range 4; on the route DOWN and RIGHT.
GridInputs ==
    CASE driver = "endurance" -> {0, 4}
      [] driver = "route"     -> {1, 3}
      [] OTHER                -> DiscreteInputs

GridStep(action) ==
    LET obstacles    == _update_moving_obstacles(moving_obstacles)
        old_pos      == agent_pos[0]
        moved        == GridProposal(old_pos, action)
        occupied     == _get_occupied_cells(obstacles)
        hit_obstacle == GridHit(moved, occupied)
        p            == GridMove(old_pos, moved, occupied)
        reached_goal == p = PosOf(current_goal)
        steps        == step_count + 1
    IN  /\ scn = "gridworld"
        /\ action \in GridInputs
        /\ StepExplored(gridworld_max_steps)
        /\ \A id \in DOMAIN moving_obstacles :
               moving_obstacles[id].t < MaxObstacleTicks
        /\ moving_obstacles' = obstacles
        /\ agent_pos' = [agent_pos EXCEPT ![0] = p]
        /\ step_count' = steps
        /\ call' = [op |-> "step", actions |-> <<action>>]
        /\ ret' = [reward     |-> [i \in {0} |->
                                     _compute_reward(reached_goal, hit_obstacle)],
                   terminated |-> [i \in {0} |->
                                     GridTerminated(reached_goal, hit_obstacle)],
                   truncated  |-> [i \in {0} |->
                                     Truncated(steps, gridworld_max_steps)]]
        /\ ev' = [blocked |-> [i \in {0} |-> hit_obstacle],
                  goal    |-> [i \in {0} |-> reached_goal]]
        /\ k' = k + 1
        /\ faulted' = faulted
        /\ UNCHANGED <<scn, numpy, cumulative_reward, generator,
                       level_config, driver, resource, agent_angle,
                       history, current_goal_idx, current_goal>>

\* GridWorldEnv.reset: the position and the step counter, nothing else
GridReset ==
    /\ scn = "gridworld"
    /\ agent_pos' = [i \in {0} |-> PosOf(<<1, 1>>)]
    /\ step_count' = 0
    /\ call' = [op |-> "reset", actions |-> <<>>]
    /\ k' = 0
    /\ faulted' = FALSE
    /\ UNCHANGED <<scn, numpy, cumulative_reward, generator,
                   level_config, driver, resource, agent_angle, history,
                   current_goal_idx, current_goal, moving_obstacles, ret, ev>>

-----------------------------------------------------------------------------
(* Headings.  A heading is an integer h standing for h turn units: 0.2 rad *)
(* in SwarmDrones and ReefGuardians, 0.3 rad in SnowplowFleet.  The tables *)
(* hold 1000*cos and 1000*sin of 0 .. 8 units, rounded; negative headings  *)
(* follow by symmetry.                                                     *)

CosTable02 == <<1000, 980, 921, 825, 697, 540, 362, 170, -29>>
SinTable02 == <<0, 199, 389, 565, 717, 841, 932, 985, 1000>>
CosTable03 == <<1000, 955, 825, 622, 362, 71, -227, -505, -737>>
SinTable03 == <<0, 296, 565, 783, 932, 997, 974, 863, 675>>

Abs(v) == IF v < 0 THEN -v ELSE v

\* np.cos / np.sin of a heading, in thousandths; rad is "0.2" or "0.3"
Cos(rad, h) ==
    IF rad = "0.2" THEN CosTable02[Abs(h) + 1] ELSE CosTable03[Abs(h) + 1]

Sin(rad, h) ==
    LET v == IF rad = "0.2" THEN SinTable02[Abs(h) + 1]
             ELSE SinTable03[Abs(h) + 1]
    IN  IF h < 0 THEN -v ELSE v

\* amount * c for an amount in thousandths and a cos/sin value in
\* thousandths, rounded toward zero
Times(amount, c) ==
    LET v == amount * c
    IN  IF v >= 0 THEN v \div Unit ELSE -((-v) \div Unit)

-----------------------------------------------------------------------------
(* Action batches of the multi-agent environments.  step(actions) takes a  *)
(* batch: a sequence of per-agent actions.  A batch shorter than the agent *)
(* count is accepted, and the agents beyond it use its first action.       *)

\* mutant: an agent beyond the batch gets no action at all (dock, or a
\* vector without thrust) instead of the batch's first one
MutEffActionIdle(actions, i) ==
    IF Len(actions) > i THEN actions[i + 1]
    ELSE IF scn = "warehouse" THEN 3 ELSE <<0, -1>>

\* mutant: every agent carries out the action of agent 0
MutEffActionOfFirst(actions, i) == actions[1]

\* "action = actions[i] if len(actions) > i else actions[0]"
EffAction(actions, i) ==
    IF Len(actions) > i THEN actions[i + 1] ELSE actions[1]

\* The per-agent actions the explored callers pass.
\* WarehouseBots: the discrete actions 0..4 and 5, outside the action space.
\* The continuous scenarios: <<turn or steer, thrust or boost or speed>> at
\* full deflection (the remaining components of the vector are never read).
ActionInputs(s) ==
    IF s = "warehouse" THEN 0 .. 5
    ELSE {<<0, -1>>, <<0, 1>>, <<1, 1>>, <<-1, 1>>}

\* A vector with too few components: the turn alone.  SnowplowFleet accepts
\* it (and a bare number) by zero-padding; see Padded.
ShortInputs == {<<1>>}

\* "action = np.concatenate([action, np.zeros(3 - len(action))])"
Padded(action) == IF Len(action) < 2 THEN action \o <<0>> ELSE action

\* the action of an agent the caller leaves alone: dock / no thrust
Idle(s) == IF s = "warehouse" THEN 3 ELSE <<0, -1>>

\* The actions the "endurance" caller repeats through a full-length
\* episode: WarehouseBots docks, and may charge once bot 0 is exhausted;
\* the continuous scenarios idle or go straight ahead.
EnduranceInputs(s) ==
    CASE s = "warehouse" -> IF resource[0].battery = 0 THEN {3, 4} ELSE {3}
      [] s = "reef"      -> {<<0, -1>>}
      [] OTHER           -> {<<0, -1>>, <<0, 1>>}

\* a full batch: agent i acts, the others idle
Batch(s, i, a) == [j \in 1 .. num_agents(s) |-> IF j = i + 1 THEN a ELSE Idle(s)]

\* The batches explored.  The "explore" caller passes any single action
\* (used by every agent) or any full batch in which agent 0 or agent 1
\* acts and the others idle, and ends the episode within FreeTicks ticks;
\* the "endurance" caller repeats single actions for the whole step budget
\* and beyond; the trainer passes one action_space.sample(), a bare
\* number that step() wraps into a batch of one ("actions = [actions]").
Batches(s) ==
    IF driver = "endurance"
    THEN {<<a>> : a \in EnduranceInputs(s)}
    ELSE IF driver = "trainer"
    THEN {<<a>> : a \in 0 .. 4}
    ELSE {<<a>> : a \in ActionInputs(s)}
         \cup {Batch(s, i, a) : i \in {0, 1}, a \in ActionInputs(s)}
         \cup (IF s = "snowplow"
               THEN {Batch(s, i, a) : i \in {0, 1}, a \in ShortInputs}
               ELSE {})

\* Batches on which SwarmDrones and ReefGuardians raise, passed by the
\* "explore" caller, at most once in an episode.  A uniform batch gives every agent the same short
\* vector (an array of shape (n, 1)): agent 0's "action[1]" is an
\* IndexError.
UniformShortBatches(s) ==
    {[j \in 1 .. num_agents(s) |-> a] : a \in ShortInputs}

\* A ragged batch: agent 1's vector is short, the others' are full.
RaggedBatches(s) == {Batch(s, 1, a) : a \in ShortInputs}

\* What np.array(actions) makes of a ragged batch depends on the numpy the
\* build has: "strict" (1.24 and later) raises ValueError, "object" (before)
\* returns an array of per-agent lists, read one agent at a time.  Only
\* ReefGuardians under the "explore" caller is passed ragged batches, so
\* only there are both builds explored.
NumpyBuilds(s, d) ==
    IF s = "reef" /\ d = "explore" THEN {"strict", "object"} ELSE {"strict"}

\* the call record of a step() that raised
Raised(actions, error) ==
    [op |-> "step_raised", actions |-> actions, error |-> error]

\* the configured start positions, as reset() and __init__ place the agents
StartPositions(s) ==
    [i \in Agents(s) |-> PosOf(level_config.start_positions[i + 1])]

NoEvents(s) ==
    [blocked |-> [i \in Agents(s) |-> FALSE], goal |-> [i \in Agents(s) |-> FALSE]]

\* np.array([self.step_count >= self.max_steps] * self.num_agents)
Truncateds(s, count) == [i \in Agents(s) |-> Truncated(count, max_steps)]

-----------------------------------------------------------------------------
(* WarehouseBotsEnv *)

WarehouseConfig ==
    Config({<<24, 24>>}, <<(<<23, 24>>), (<<24, 0>>)>>,
           <<(<<22, 24>>), (<<23, 24>>), (<<23, 0>>)>>)

\* the level __init__ uses when it is passed no level_config
WarehouseDefaultLevel ==
    Config({<<10, 10>>, <<10, 11>>, <<12, 10>>},
           <<(<<24, 24>>), (<<1, 24>>)>>,
           <<(<<12, 12>>), (<<5, 5>>), (<<20, 20>>)>>)

\* agent_battery[i] = max(0.0, agent_battery[i] - 0.01)
WarehouseDecay(b) == Max(0, b - 10)

\* mutant: the charge is not capped at 1.0
MutChargeUncapped(b) == b + 50

\* agent_battery[i] = min(1.0, agent_battery[i] + 0.05)
WarehouseCharge(b) == Min(Unit, b + 50)

\* the battery after the decay and the action (4 is charge)
WarehouseBattery(b, action) ==
    IF action = 4 THEN WarehouseCharge(WarehouseDecay(b)) ELSE WarehouseDecay(b)

\* forward, turn left, turn right; dock, charge and anything else do not move
WarehouseMove(p, action) ==
    CASE action = 0 -> <<Min((grid_size - 1) * Unit, p[1] + 500), p[2]>>
      [] action = 1 -> <<p[1], Min((grid_size - 1) * Unit, p[2] + 300)>>
      [] action = 2 -> <<p[1], Max(0, p[2] - 300)>>
      [] OTHER      -> p

\* rewards[i]: +0.1 for dock, -0.01 always
WarehouseReward(action) == (IF action = 3 THEN 10 ELSE 0) - 1

WarehouseStep(actions) ==
    LET count   == step_count + 1
        battery == [i \in Agents("warehouse") |->
                      WarehouseBattery(resource[i].battery, EffAction(actions, i))]
    IN  /\ scn = "warehouse"
        /\ StepExplored(max_steps)
        /\ step_count' = count
        /\ resource' = [i \in Agents("warehouse") |-> [battery |-> battery[i]]]
        /\ agent_pos' = [i \in Agents("warehouse") |->
                           WarehouseMove(agent_pos[i], EffAction(actions, i))]
        /\ call' = [op |-> "step", actions |-> actions]
        /\ ret' = [reward     |-> [i \in Agents("warehouse") |->
                                     WarehouseReward(EffAction(actions, i))],
                   terminated |-> [i \in Agents("warehouse") |->
                                     ResourceExhausted(battery[i])],
                   truncated  |-> Truncateds("warehouse", count)]
        /\ ev' = NoEvents("warehouse")
        /\ k' = k + 1
        /\ faulted' = faulted
        /\ UNCHANGED <<scn, numpy, cumulative_reward, generator,
                       level_config, driver, agent_angle, history,
                       current_goal_idx, current_goal, moving_obstacles>>

WarehouseReset ==
    /\ scn = "warehouse"
    /\ agent_pos' = StartPositions("warehouse")
    /\ resource' = [i \in Agents("warehouse") |-> [battery |-> Unit]]
    /\ step_count' = 0
    /\ call' = [op |-> "reset", actions |-> <<>>]
    /\ k' = 0
    /\ faulted' = FALSE
    /\ UNCHANGED <<scn, numpy, cumulative_reward, generator,
                   level_config, driver, agent_angle, history,
                   current_goal_idx, current_goal, moving_obstacles, ret, ev>>

-----------------------------------------------------------------------------
(* The continuous scenarios.  An action is <<a0, a1>>: the first two       *)
(* components of the action vector, each -1, 0 or 1.                       *)

\* max(0.0, action[1]): thrust, boost or speed
Throttle(action) == Max(0, action[2])

\* mutant: the boundary clip is missing
MutAdvanceUnclipped(p, amount, rad, h) ==
    <<p[1] + Times(amount, Cos(rad, h)), p[2] + Times(amount, Sin(rad, h))>>

\* a position advanced by amount along a heading and clipped to the grid:
\* pos += amount * (cos, sin); np.clip(pos, 0, grid_size - 1)
Advance(p, amount, rad, h) ==
    <<Clip(p[1] + Times(amount, Cos(rad, h)), 0, (grid_size - 1) * Unit),
      Clip(p[2] + Times(amount, Sin(rad, h)), 0, (grid_size - 1) * Unit)>>

\* mutant: the history holds the current cell only
MutTrackCurrentOnly(hist, pos) == [i \in DOMAIN hist |-> {CellOf(pos[i])}]

\* visited_cells / cleared_cells after the agents reach positions pos
Track(hist, pos) == [i \in DOMAIN hist |-> hist[i] \cup {CellOf(pos[i])}]

\* mutant: the bonus is paid on every tick
MutTrackRewardEveryTick(hist, p, bonus) == bonus - 1

\* "if cell not in history: rewards[i] += bonus", then the 0.01 step cost
TrackReward(hist, p, bonus) == (IF CellOf(p) \notin hist THEN bonus ELSE 0) - 1

-----------------------------------------------------------------------------
(* SwarmDronesEnv *)

SwarmConfig ==
    Config({<<10, 10>>}, <<(<<24, 24>>)>>,
           <<(<<23, 0>>), (<<23, 24>>), (<<24, 0>>), (<<24, 12>>)>>)

\* agent_battery[i] = max(0.0, agent_battery[i] - 0.01)
SwarmDecay(b) == Max(0, b - 10)

\* agent_angle[i] += action[0] * 0.2, in units of 0.2 rad
SwarmTurn(h, action) == h + action[1]

\* pos += thrust * 0.5 * (cos, sin)(agent_angle[i]), clipped
SwarmMove(p, h, action) == Advance(p, Throttle(action) * 500, "0.2", h)

SwarmStep(actions) ==
    LET count   == step_count + 1
        A       == Agents("swarm")
        battery == [i \in A |-> SwarmDecay(resource[i].battery)]
        angle   == [i \in A |-> SwarmTurn(agent_angle[i], EffAction(actions, i))]
        pos     == [i \in A |->
                      SwarmMove(agent_pos[i], angle[i], EffAction(actions, i))]
    IN  /\ scn = "swarm"
        /\ StepExplored(max_steps)
        /\ step_count' = count
        /\ resource' = [i \in A |-> [battery |-> battery[i]]]
        /\ agent_angle' = angle
        /\ agent_pos' = pos
        /\ history' = Track(history, pos)
        /\ call' = [op |-> "step", actions |-> actions]
        /\ ret' = [reward     |-> [i \in A |-> TrackReward(history[i], pos[i], 10)],
                   terminated |-> [i \in A |-> ResourceExhausted(battery[i])],
                   truncated  |-> Truncateds("swarm", count)]
        /\ ev' = NoEvents("swarm")
        /\ k' = k + 1
        /\ faulted' = faulted
        /\ UNCHANGED <<scn, numpy, cumulative_reward, generator,
                       level_config, driver, current_goal_idx,
                       current_goal, moving_obstacles>>

\* step() on a uniform short batch: the counter is incremented, drone 0's
\* battery decays, and "thrust = max(0.0, action[1])" raises
SwarmStepRaises(actions) ==
    /\ scn = "swarm"
    /\ driver = "explore"
    /\ ~faulted
    /\ StepExplored(max_steps)
    /\ step_count' = step_count + 1
    /\ resource' = [resource EXCEPT ![0].battery = SwarmDecay(@)]
    /\ call' = Raised(actions, "IndexError")
    /\ k' = k + 1
    /\ faulted' = TRUE
    /\ UNCHANGED <<scn, numpy, cumulative_reward, generator,
                   level_config, driver, agent_pos, agent_angle, history,
                   current_goal_idx, current_goal, moving_obstacles, ret, ev>>

SwarmReset ==
    /\ scn = "swarm"
    /\ agent_pos' = StartPositions("swarm")
    /\ resource' = [i \in Agents("swarm") |-> [battery |-> Unit]]
    /\ agent_angle' = [i \in Agents("swarm") |-> 0]
    /\ history' = [i \in Agents("swarm") |-> {}]
    /\ step_count' = 0
    /\ call' = [op |-> "reset", actions |-> <<>>]
    /\ k' = 0
    /\ faulted' = FALSE
    /\ UNCHANGED <<scn, numpy, cumulative_reward, generator,
                   level_config, driver, current_goal_idx, current_goal,
                   moving_obstacles, ret, ev>>

-----------------------------------------------------------------------------
(* ReefGuardiansEnv *)

ReefConfig ==
    Config({<<12, 12>>}, <<(<<24, 24>>)>>,
           <<(<<23, 0>>), (<<23, 24>>), (<<24, 0>>), (<<1, 1>>), (<<2, 2>>),
             (<<3, 3>>)>>)

\* agent_energy[i] = max(0.0, agent_energy[i] - 0.015)
ReefDecay(e) == Max(0, e - 15)

\* pos += (0.3 + boost * 0.2) * (cos, sin)(action[0] * 0.2), clipped
ReefMove(p, action) ==
    Advance(p, 300 + Throttle(action) * 200, "0.2", action[1])

\* np.random is one generator for the whole process: a deterministic stream
\* whose state fixes the draws to come.  Its states are abstracted to three,
\* one per outcome explored for the draws of one tick.
Generators == 0 .. 2

\* The outcome of "np.random.random() < 0.1" for the agents of one tick, by
\* the state the generator is in when the tick begins: the set of agents
\* whose draw succeeds is empty, agent 0 alone, or every agent.
Drawn(g) ==
    CASE g = 0 -> {}
      [] g = 1 -> {0}
      [] g = 2 -> Agents("reef")

\* the state of the generator after the draws of a tick
NextGenerator(g) == (g + 1) % 3

\* the state np.random.seed(seed) puts the generator in
SeedPosition(seed) == seed % 3

\* the seeds the explored callers pass to reset(seed=...)
Seeds == {0, 1}

\* the outcomes of the draws of one tick
AlgaeDraws == {Drawn(g) : g \in Generators}

\* rewards[i]: -0.01, +0.2 when the draw succeeds
ReefReward(i, algae) == -1 + (IF i \in algae THEN 20 ELSE 0)

\* mutant: the algae an agent collects restores its energy
MutReefStepAlgaeFeeds(actions, algae) ==
    LET count  == step_count + 1
        A      == Agents("reef")
        energy == [i \in A |-> IF i \in algae THEN Unit
                               ELSE ReefDecay(resource[i].energy)]
    IN  /\ scn = "reef"
        /\ StepExplored(max_steps)
        /\ step_count' = count
        /\ resource' = [i \in A |-> [energy |-> energy[i]]]
        /\ agent_pos' = [i \in A |-> ReefMove(agent_pos[i], EffAction(actions, i))]
        /\ call' = [op |-> "step", actions |-> actions]
        /\ ret' = [reward     |-> [i \in A |-> ReefReward(i, algae)],
                   terminated |-> [i \in A |-> ResourceExhausted(energy[i])],
                   truncated  |-> Truncateds("reef", count)]
        /\ ev' = NoEvents("reef")
        /\ generator' = NextGenerator(generator)
        /\ k' = k + 1
        /\ faulted' = faulted
        /\ UNCHANGED <<scn, numpy, cumulative_reward,
                       level_config, driver, agent_angle, history,
                       current_goal_idx, current_goal, moving_obstacles>>

ReefStep(actions, algae) ==
    LET count  == step_count + 1
        A      == Agents("reef")
        energy == [i \in A |-> ReefDecay(resource[i].energy)]
    IN  /\ scn = "reef"
        /\ StepExplored(max_steps)
        /\ step_count' = count
        /\ resource' = [i \in A |-> [energy |-> energy[i]]]
        /\ agent_pos' = [i \in A |-> ReefMove(agent_pos[i], EffAction(actions, i))]
        /\ call' = [op |-> "step", actions |-> actions]
        /\ ret' = [reward     |-> [i \in A |-> ReefReward(i, algae)],
                   terminated |-> [i \in A |-> ResourceExhausted(energy[i])],
                   truncated  |-> Truncateds("reef", count)]
        /\ ev' = NoEvents("reef")
        /\ generator' = NextGenerator(generator)
        /\ k' = k + 1
        /\ faulted' = faulted
        /\ UNCHANGED <<scn, numpy, cumulative_reward,
                       level_config, driver, agent_angle, history,
                       current_goal_idx, current_goal, moving_obstacles>>

\* step() on a batch whose first short vector is agent j's.  A strict numpy
\* refuses a ragged batch in np.array(actions), before anything is changed.
\* Otherwise the counter is incremented, agents 0 .. j-1 are moved, the
\* energy of agents 0 .. j decays, and "boost = max(0.0, action[1])" raises
\* for agent j; agents 0 .. j-1 have drawn from the generator by then.
ReefStepRaises(actions) ==
    LET A      == Agents("reef")
        j      == CHOOSE i \in A : /\ Len(actions[i + 1]) < 2
                                   /\ \A h \in A : h < i => Len(actions[h + 1]) >= 2
        ragged == \E i \in A : Len(actions[i + 1]) >= 2
    IN  /\ scn = "reef"
        /\ driver = "explore"
        /\ ~faulted
        /\ StepExplored(max_steps)
        /\ IF ragged /\ numpy = "strict"
           THEN /\ call' = Raised(actions, "ValueError")
                /\ UNCHANGED <<step_count, resource, agent_pos, generator>>
           ELSE /\ call' = Raised(actions, "IndexError")
                /\ generator' = IF j > 0 THEN NextGenerator(generator)
                                ELSE generator
                /\ step_count' = step_count + 1
                /\ resource' = [i \in A |->
                                  IF i <= j
                                  THEN [energy |-> ReefDecay(resource[i].energy)]
                                  ELSE resource[i]]
                /\ agent_pos' = [i \in A |->
                                   IF i < j
                                   THEN ReefMove(agent_pos[i], actions[i + 1])
                                   ELSE agent_pos[i]]
        /\ k' = k + 1
        /\ faulted' = TRUE
        /\ UNCHANGED <<scn, numpy, cumulative_reward,
                       level_config, driver, agent_angle, history,
                       current_goal_idx, current_goal, moving_obstacles, ret, ev>>

\* reset(seed=seed): the seed goes to gymnasium's Env.reset, which seeds the
\* engine's own self.np_random; no step() draws from that, and np.random is
\* left as it is
ReefReset(seed) ==
    /\ scn = "reef"
    /\ agent_pos' = StartPositions("reef")
    /\ resource' = [i \in Agents("reef") |-> [energy |-> Unit]]
    /\ step_count' = 0
    /\ call' = [op |-> "reset", actions |-> <<>>, seed |-> seed]
    /\ k' = 0
    /\ faulted' = FALSE
    /\ UNCHANGED <<scn, numpy, cumulative_reward, generator,
                   level_config, driver, agent_angle, history,
                   current_goal_idx, current_goal, moving_obstacles, ret, ev>>

-----------------------------------------------------------------------------
(* SnowplowFleetEnv *)

SnowplowConfig ==
    Config({<<10, 10>>}, <<(<<24, 0>>), (<<0, 24>>)>>,
           <<(<<23, 0>>), (<<24, 0>>)>>)

\* the same level with an empty goalPositions list
SnowplowNoGoals ==
    ParseLevel([gridSize |-> grid_size, staticObstacles |-> {<<10, 10>>},
                goalPositions |-> <<>>,
                startPositions |-> <<(<<23, 0>>), (<<24, 0>>)>>])

\* _get_observation reads goal_positions[agent_idx % len(goal_positions)]:
\* with no goals the modulo raises, in step() after the agents were updated
\* and in reset() after the state was reset
ObservationRaises == Len(level_config.goal_positions) = 0

\* the movingObstacles list of the level: one car, which step() never moves
SnowplowTraffic == [id \in {"car_1"} |-> [x |-> 23, y |-> 1]]

\* mutant: the fuel decay is not clamped at 0
MutFuelDecayUnclamped(f) == f - 10

\* agent_fuel[i] = max(0.0, agent_fuel[i] - 0.01)
FuelDecay(f) == Max(0, f - 10)

\* agent_salt[i] = max(0.0, agent_salt[i] - 0.005)
SaltDecay(v) == Max(0, v - 5)

\* agent_angle[i] += action[0] * 0.3, in units of 0.3 rad
SnowplowTurn(h, action) == h + action[1]

\* pos += speed * 0.5 * (cos, sin)(agent_angle[i]), clipped
SnowplowMove(p, h, action) == Advance(p, Throttle(action) * 500, "0.3", h)

SnowplowStep(actions) ==
    LET count == step_count + 1
        A     == Agents("snowplow")
        fuel  == [i \in A |-> FuelDecay(resource[i].fuel)]
        salt  == [i \in A |-> SaltDecay(resource[i].salt)]
        act   == [i \in A |-> Padded(EffAction(actions, i))]
        angle == [i \in A |-> SnowplowTurn(agent_angle[i], act[i])]
        pos   == [i \in A |-> SnowplowMove(agent_pos[i], angle[i], act[i])]
    IN  /\ scn = "snowplow"
        /\ StepExplored(max_steps)
        /\ step_count' = count
        /\ resource' = [i \in A |-> [fuel |-> fuel[i], salt |-> salt[i]]]
        /\ agent_angle' = angle
        /\ agent_pos' = pos
        /\ history' = Track(history, pos)
        /\ IF ObservationRaises
           THEN /\ call' = Raised(actions, "ZeroDivisionError")
                /\ faulted' = TRUE
                /\ UNCHANGED ret
           ELSE /\ call' = [op |-> "step", actions |-> actions]
                /\ faulted' = faulted
                /\ ret' = [reward     |-> [i \in A |->
                                TrackReward(history[i], pos[i], 30)],
                           terminated |-> [i \in A |-> ResourceExhausted(fuel[i])],
                           truncated  |-> Truncateds("snowplow", count)]
        /\ ev' = NoEvents("snowplow")
        /\ k' = k + 1
        /\ UNCHANGED <<scn, numpy, cumulative_reward, generator,
                       level_config, driver, current_goal_idx,
                       current_goal, moving_obstacles>>

SnowplowReset ==
    /\ scn = "snowplow"
    /\ agent_pos' = StartPositions("snowplow")
    /\ agent_angle' = [i \in Agents("snowplow") |-> 0]
    /\ resource' = [i \in Agents("snowplow") |-> [fuel |-> Unit, salt |-> Unit]]
    /\ history' = [i \in Agents("snowplow") |-> {}]
    /\ step_count' = 0
    /\ call' = IF ObservationRaises
               THEN [op |-> "reset_raised", actions |-> <<>>,
                     error |-> "ZeroDivisionError"]
               ELSE [op |-> "reset", actions |-> <<>>]
    /\ k' = 0
    /\ faulted' = FALSE
    /\ UNCHANGED <<scn, numpy, cumulative_reward, generator,
                   level_config, driver, current_goal_idx, current_goal,
                   moving_obstacles, ret, ev>>

-----------------------------------------------------------------------------
(* Observations.  _get_observation reads the engine's fields and the level *)
(* only.  An engine is given here as a record e of its fields.  A real-    *)
(* valued entry is given by the exact quantities it is computed from: a    *)
(* distance by its square, a sinusoid of the step count by the step count, *)
(* a mean by the sum, an arctan2 by its two arguments.  Entries that are   *)
(* equal here are equal float32 entries of the array.                      *)

\* the fields of the engine, as they are now
Engine ==
    [agent_pos        |-> agent_pos,
     resource         |-> resource,
     agent_angle      |-> agent_angle,
     history          |-> history,
     step_count       |-> step_count,
     current_goal_idx |-> current_goal_idx,
     current_goal     |-> current_goal,
     moving_obstacles |-> moving_obstacles]

\* np.linalg.norm(goal - pos), squared; goal a cell, pos in thousandths
Dist2(goal, p) ==
    LET dx == goal[1] * Unit - p[1]
        dy == goal[2] * Unit - p[2]
    IN  dx * dx + dy * dy

\* BunnyGardenEnv._get_observation
BunnyObservation(e) ==
    LET p == e.agent_pos[0]
    IN  <<p[1], p[2], e.current_goal[1], e.current_goal[2],
          Dist2(e.current_goal, p), e.resource[0].energy>>

\* GridWorldEnv._get_observation; goal_pos is [23, 23]
GridObservation(e) ==
    LET p == e.agent_pos[0]
    IN  <<p[1], p[2], 23, 23, Dist2(<<23, 23>>, p)>>

\* "offset = self.agent_pos[other_idx] - pos" for the first four agents
\* other than agent i, zero in the other slots
NeighborOffsets(s, e, i) ==
    [j \in 0 .. 3 |->
        IF j \in Agents(s) /\ j # i
        THEN <<e.agent_pos[j][1] - e.agent_pos[i][1],
               e.agent_pos[j][2] - e.agent_pos[i][2]>>
        ELSE <<0, 0>>]

\* WarehouseBotsEnv._get_occupancy_grid: the 5x5 cells around the bot
_get_occupancy_grid(e, i) ==
    LET c == CellOf(e.agent_pos[i])
    IN  [a \in 0 .. 4, b \in 0 .. 4 |->
            <<c[1] + a - 2, c[2] + b - 2>> \in level_config.static_obstacles]

\* goal_positions[agent_idx % len(goal_positions)]
GoalOf(i) ==
    level_config.goal_positions[(i % Len(level_config.goal_positions)) + 1]

\* WarehouseBotsEnv._get_observation; agent_carrying and agent_jobs are
\* never written after __init__ and reset(): False and 0
WarehouseObservation(e, i) ==
    <<e.agent_pos[i], GoalOf(i), Dist2(GoalOf(i), e.agent_pos[i]),
      e.resource[i].battery, 0, 0, _get_occupancy_grid(e, i),
      NeighborOffsets("warehouse", e, i)>>

\* 1000 * cos and 1000 * sin of 2 * pi * i / 8, i = 0 .. 7
RayCos == <<1000, 707, 0, -707, -1000, -707, 0, 707>>
RaySin == <<0, 707, 1000, 707, 0, -707, -1000, -707>>

\* range(1, int(self.grid_size / 2))
LidarRange == 1 .. ((grid_size \div 2) - 1)

\* the lidar reading of one ray: the first r whose cell
\* (int(x + r * cos), int(y + r * sin)) is a static obstacle, else grid_size
LidarRay(p, ray) ==
    LET cell(r) == CellOf(<<p[1] + r * RayCos[ray + 1],
                            p[2] + r * RaySin[ray + 1]>>)
        hits    == {r \in LidarRange : cell(r) \in level_config.static_obstacles}
    IN  IF hits = {} THEN grid_size
        ELSE CHOOSE r \in hits : \A q \in hits : r <= q

\* SwarmDronesEnv._get_observation
SwarmObservation(e, i) ==
    LET goal == level_config.goal_positions[1]
    IN  <<e.agent_pos[i], goal, Dist2(goal, e.agent_pos[i]),
          e.resource[i].battery, e.agent_angle[i],
          [ray \in 0 .. 7 |-> LidarRay(e.agent_pos[i], ray)],
          NeighborOffsets("swarm", e, i),
          Cardinality(e.history[i]) > 10>>

\* agent_school[i] = i % num_schools, num_schools = 2
AgentSchool(i) == i % 2

\* the sum of the positions of a set of agents
RECURSIVE SumPos(_, _)
SumPos(pos, agents) ==
    IF agents = {} THEN <<0, 0>>
    ELSE LET i    == CHOOSE a \in agents : TRUE
             rest == SumPos(pos, agents \ {i})
         IN  <<pos[i][1] + rest[1], pos[i][2] + rest[2]>>

\* ReefGuardiansEnv._get_observation.  sector_algae and predator_threat are
\* sinusoids of step_count; the centroid is the mean position of the
\* agent's school, given by the sum; predator_dir is the arctan2 of the
\* centroid's offset, given by the offset scaled by the school's size.
ReefObservation(e, i) ==
    LET goal   == level_config.goal_positions[1]
        school == {j \in Agents("reef") : AgentSchool(j) = AgentSchool(i)}
        total  == SumPos(e.agent_pos, school)
        n      == Cardinality(school)
    IN  <<e.agent_pos[i], goal, Dist2(goal, e.agent_pos[i]),
          e.resource[i].energy, AgentSchool(i), e.step_count, e.step_count,
          <<total[2] - n * e.agent_pos[i][2], total[1] - n * e.agent_pos[i][1]>>,
          total>>

\* SnowplowFleetEnv._get_traffic_density: max(0, 1 - dist / 5) for a car
\* closer than 5, else 0; given by the squared distance, capped at 25
_get_traffic_density(e, p) ==
    [id \in DOMAIN e.moving_obstacles |->
        Min(25 * Unit * Unit,
            Dist2(<<e.moving_obstacles[id].x, e.moving_obstacles[id].y>>, p))]

\* SnowplowFleetEnv._get_observation; _get_snow_depth_map is a sinusoid of
\* step_count per reading
SnowplowObservation(e, i) ==
    <<e.agent_pos[i], GoalOf(i), Dist2(GoalOf(i), e.agent_pos[i]),
      e.agent_angle[i], e.step_count, _get_traffic_density(e, e.agent_pos[i]),
      e.resource[i].salt, e.resource[i].fuel>>

\* the lengths of the arrays _get_observation concatenates (one entry per
\* scalar in the single-agent engines, which build the vector from scalars):
\* pos, goal, dist, then the scenario's own parts
ObservationParts(s) ==
    CASE s = "bunny"     -> <<1, 1, 1, 1, 1, 1>>
      [] s = "gridworld" -> <<1, 1, 1, 1, 1>>
      [] s = "warehouse" -> <<2, 2, 1, 1, 1, 1, 5 * 5, 8>>
      [] s = "swarm"     -> <<2, 2, 1, 1, 1, 8, 8, 1>>
      [] s = "reef"      -> <<2, 2, 1, 1, 1, 1, 8, 1, 2>>
      [] s = "snowplow"  -> <<2, 2, 1, 1, 16, 8, 1, 1>>

RECURSIVE SumSeq(_)
SumSeq(q) == IF q = <<>> THEN 0 ELSE Head(q) + SumSeq(Tail(q))

\* len(obs) of an observation vector
ObservationLength(s) == SumSeq(ObservationParts(s))

\* observation_space.shape[0], as declared in __init__
observation_space(s) ==
    CASE s = "bunny"     -> 6
      [] s = "gridworld" -> 5
      [] s = "warehouse" -> 34
      [] s = "swarm"     -> 26
      [] s = "reef"      -> 15
      [] s = "snowplow"  -> 30

\* the observation batch step() and reset() return for an engine
Observation(e) ==
    CASE scn = "bunny"     -> [i \in {0} |-> BunnyObservation(e)]
      [] scn = "gridworld" -> [i \in {0} |-> GridObservation(e)]
      [] scn = "warehouse" ->
             [i \in Agents(scn) |-> WarehouseObservation(e, i)]
      [] scn = "swarm"     -> [i \in Agents(scn) |-> SwarmObservation(e, i)]
      [] scn = "reef"      -> [i \in Agents(scn) |-> ReefObservation(e, i)]
      [] scn = "snowplow"  ->
             [i \in Agents(scn) |-> SnowplowObservation(e, i)]

-----------------------------------------------------------------------------
(* Construction.  __init__ of each class leaves the engine in the state    *)
(* reset() restores; the return value and the events are those of no step. *)

NoReturn(s) ==
    [reward     |-> [i \in Agents(s) |-> 0],
     terminated |-> [i \in Agents(s) |-> FALSE],
     truncated  |-> [i \in Agents(s) |-> FALSE]]

InitialResource(s) ==
    CASE s = "bunny"     -> [energy |-> Unit]
      [] s = "gridworld" -> [x \in {} |-> 0]
      [] s = "warehouse" -> [battery |-> Unit]
      [] s = "swarm"     -> [battery |-> Unit]
      [] s = "reef"      -> [energy |-> Unit]
      [] s = "snowplow"  -> [fuel |-> Unit, salt |-> Unit]

\* the fields __init__ leaves an engine of scenario s and level config with
InitialEngine(s, config) ==
    [agent_pos        |-> [i \in Agents(s) |->
                              PosOf(config.start_positions[i + 1])],
     resource         |-> [i \in Agents(s) |-> InitialResource(s)],
     agent_angle      |-> [i \in Agents(s) |-> 0],
     history          |-> [i \in Agents(s) |-> {}],
     step_count       |-> 0,
     current_goal_idx |-> 0,
     current_goal     |-> IF Len(config.goal_positions) > 0
                          THEN config.goal_positions[1] ELSE <<>>,
     moving_obstacles |-> CASE s = "gridworld" -> InitialObstacles(config.level)
                            [] s = "snowplow"  -> SnowplowTraffic
                            [] OTHER           -> <<>>]

Configs(s) ==
    CASE s = "bunny"     -> BunnyConfigs
      [] s = "gridworld" -> GridConfigs
      [] s = "warehouse" -> {WarehouseConfig, WarehouseDefaultLevel}
      [] s = "swarm"     -> {SwarmConfig}
      [] s = "reef"      -> {ReefConfig}
      [] s = "snowplow"  -> {SnowplowConfig, SnowplowNoGoals}

\* BunnyGarden is explored under a caller that passes any action at any
\* tick; the other scenarios under the two callers of Batches, GridWorld
\* also along the route
Drivers(s) ==
    CASE s = "bunny"     -> {"any"}
      [] s = "gridworld" -> {"explore", "endurance", "route"}
      [] OTHER           -> {"explore", "endurance"}

\* the BunnyGarden levels with obstacles outside closed rooms and the level
\* without goals are explored for short episodes only; the garden without
\* obstacles is walked by the greedy caller; the trainers construct their
\* engines with no level_config ("return env_class()")
DriversOf(s, config) ==
    CASE config \in {BunnySmallLevel, SnowplowNoGoals} -> {"explore"}
      [] s = "bunny" /\ config = BunnyDefaultLevel -> {"explore", "trainer"}
      [] s = "warehouse" /\ config = WarehouseDefaultLevel -> {"trainer"}
      [] s = "bunny" /\ config = BunnyOpenLevel -> {"greedy"}
      [] OTHER -> Drivers(s)

\* BunnyGardenEnv.__init__ reads goal_positions[0] and start_positions[0]:
\* an IndexError when the list is empty.  The other constructors read
\* neither list's elements beyond copying the start positions.
ConstructorRaises(s, config) ==
    /\ s = "bunny"
    /\ Len(config.goal_positions) = 0 \/ Len(config.start_positions) = 0

Construct(s, config, d) ==
    /\ scn = s
    /\ level_config = config
    /\ driver = d
    /\ agent_pos = [i \in Agents(s) |-> PosOf(config.start_positions[i + 1])]
    /\ resource = [i \in Agents(s) |-> InitialResource(s)]
    /\ agent_angle = [i \in Agents(s) |-> 0]
    /\ history = [i \in Agents(s) |-> {}]
    /\ step_count = 0
    /\ current_goal_idx = 0
    /\ current_goal = IF Len(config.goal_positions) > 0
                      THEN config.goal_positions[1] ELSE <<>>
    /\ moving_obstacles =
           CASE s = "gridworld" -> InitialObstacles(config.level)
             [] s = "snowplow"  -> SnowplowTraffic
             [] OTHER           -> <<>>
    /\ call = [op |-> "init", actions |-> <<>>]
    /\ ret = NoReturn(s)
    /\ ev = NoEvents(s)
    /\ k = 0
    /\ faulted = FALSE

\* The generator is in any state when the engine is constructed.  It is
\* followed in the worlds of ReefGuardians, the one engine that draws from it.
InitialGenerators(s) == IF s = "reef" THEN Generators ELSE {0}

Init ==
    \E s \in Scenarios : \E config \in Configs(s) : \E d \in DriversOf(s, config) :
        /\ ~ConstructorRaises(s, config)
        /\ Construct(s, config, d)
        /\ numpy \in NumpyBuilds(s, d)
        /\ generator \in InitialGenerators(s)
        /\ cumulative_reward = 0

Step ==
    \/ \E action \in DiscreteInputs : BunnyStep(action)
    \/ \E action \in DiscreteInputs : GridStep(action)
    \/ /\ scn = "warehouse"
       /\ \E actions \in Batches(scn) : WarehouseStep(actions)
    \/ /\ scn = "swarm"
       /\ \E actions \in Batches(scn) : SwarmStep(actions)
    \/ /\ scn = "reef"
       /\ \E actions \in Batches(scn) : ReefStep(actions, Drawn(generator))
    \/ /\ scn = "snowplow"
       /\ \E actions \in Batches(scn) : SnowplowStep(actions)
    \/ /\ scn = "swarm"
       /\ \E actions \in UniformShortBatches(scn) : SwarmStepRaises(actions)
    \/ /\ scn = "reef"
       /\ \E actions \in UniformShortBatches(scn) \cup RaggedBatches(scn) :
              ReefStepRaises(actions)

Reset ==
    /\ driver = "trainer" => CollectResets
    /\ \/ BunnyReset
       \/ GridReset
       \/ WarehouseReset
       \/ SwarmReset
       \/ \E seed \in Seeds : ReefReset(seed)
       \/ SnowplowReset

\* Calls on other engines of the same process, between the calls on this
\* one.  GridWorldEnv.reset(seed=seed) of another engine: "if seed is not
\* None: np.random.seed(seed)".
OtherGridReset(seed) ==
    /\ scn = "reef"
    /\ generator' = SeedPosition(seed)
    /\ UNCHANGED <<scn, numpy, cumulative_reward,
                   level_config, driver, agent_pos, resource,
                   agent_angle, history, step_count, current_goal_idx,
                   current_goal, moving_obstacles, call, ret, ev, k, faulted>>

\* ReefGuardiansEnv.step of another engine: its agents draw from np.random
OtherReefStep ==
    /\ scn = "reef"
    /\ generator' = NextGenerator(generator)
    /\ UNCHANGED <<scn, numpy, cumulative_reward,
                   level_config, driver, agent_pos, resource,
                   agent_angle, history, step_count, current_goal_idx,
                   current_goal, moving_obstacles, call, ret, ev, k, faulted>>

OtherInstance ==
    \/ \E seed \in Seeds : OtherGridReset(seed)
    \/ OtherReefStep

Next == Step \/ Reset \/ OtherInstance

Spec == Init /\ [][Next]_vars

-----------------------------------------------------------------------------
(* A second engine.  step() and reset() as functions: the outcome of a     *)
(* call made on an engine, computed from the engine's own fields, the      *)
(* level, the numpy of the build and the call's arguments, and from        *)
(* nothing else.  An outcome is the engine the call leaves, the flags last *)
(* returned and the error the call raised ("none" when it returned).       *)

\* a step() that returned
Returned(e, terminated, truncated) ==
    [engine |-> e, terminated |-> terminated, truncated |-> truncated,
     error |-> "none"]

\* a call that raised, or a reset(): the flags last returned stay
Left(o, e, error) ==
    [engine |-> e, terminated |-> o.terminated, truncated |-> o.truncated,
     error |-> error]

\* np.array(actions) of per-agent vectors of different lengths
Ragged(actions) ==
    \E a, b \in 1 .. Len(actions) : Len(actions[a]) # Len(actions[b])

\* the first agent whose action vector has no component 1 to read, or
\* num_agents when every agent's has
FirstShort(s, actions) ==
    LET short == {i \in Agents(s) : Len(EffAction(actions, i)) < 2}
    IN  IF short = {} THEN num_agents(s)
        ELSE CHOOSE i \in short : \A h \in short : i <= h

BunnyAfter(o, action) ==
    LET e      == o.engine
        count  == e.step_count + 1
        energy == BunnyDecay(e.resource[0].energy)
        p      == BunnyMove(e.agent_pos[0], action)
        idx    == IF DistLt1(e.current_goal, p)
                  THEN (e.current_goal_idx + 1) % Len(level_config.goal_positions)
                  ELSE e.current_goal_idx
    IN  Returned([e EXCEPT !.step_count = count,
                           !.resource = [i \in {0} |-> [energy |-> energy]],
                           !.agent_pos = [i \in {0} |-> p],
                           !.current_goal_idx = idx,
                           !.current_goal = GoalAt(idx)],
                 [i \in {0} |-> ResourceExhausted(energy)],
                 [i \in {0} |-> Truncated(count, max_steps)])

GridAfter(o, action) ==
    LET e            == o.engine
        obstacles    == _update_moving_obstacles(e.moving_obstacles)
        moved        == GridProposal(e.agent_pos[0], action)
        occupied     == _get_occupied_cells(obstacles)
        hit_obstacle == GridHit(moved, occupied)
        p            == GridMove(e.agent_pos[0], moved, occupied)
        reached_goal == p = PosOf(<<23, 23>>)
        steps        == e.step_count + 1
    IN  Returned([e EXCEPT !.moving_obstacles = obstacles,
                           !.agent_pos = [i \in {0} |-> p],
                           !.step_count = steps],
                 [i \in {0} |-> GridTerminated(reached_goal, hit_obstacle)],
                 [i \in {0} |-> Truncated(steps, gridworld_max_steps)])

WarehouseAfter(o, actions) ==
    LET e       == o.engine
        A       == Agents("warehouse")
        count   == e.step_count + 1
        battery == [i \in A |-> WarehouseBattery(e.resource[i].battery,
                                                 EffAction(actions, i))]
    IN  Returned([e EXCEPT !.step_count = count,
                           !.resource = [i \in A |-> [battery |-> battery[i]]],
                           !.agent_pos = [i \in A |->
                               WarehouseMove(e.agent_pos[i],
                                             EffAction(actions, i))]],
                 [i \in A |-> ResourceExhausted(battery[i])],
                 Truncateds("warehouse", count))

\* the loop of SwarmDronesEnv.step runs agents 0 .. j-1, decays the battery
\* of agent j and raises on its action[1], j the first agent with a short
\* vector
SwarmAfter(o, actions) ==
    LET e       == o.engine
        A       == Agents("swarm")
        j       == FirstShort("swarm", actions)
        count   == e.step_count + 1
        battery == [i \in A |-> IF i <= j THEN SwarmDecay(e.resource[i].battery)
                                ELSE e.resource[i].battery]
        angle   == [i \in A |->
                      IF i < j
                      THEN SwarmTurn(e.agent_angle[i], EffAction(actions, i))
                      ELSE e.agent_angle[i]]
        pos     == [i \in A |->
                      IF i < j
                      THEN SwarmMove(e.agent_pos[i], angle[i],
                                     EffAction(actions, i))
                      ELSE e.agent_pos[i]]
        left    == [e EXCEPT !.step_count = count,
                             !.resource = [i \in A |-> [battery |-> battery[i]]],
                             !.agent_angle = angle,
                             !.agent_pos = pos,
                             !.history = [i \in A |->
                                 IF i < j THEN e.history[i] \cup {CellOf(pos[i])}
                                 ELSE e.history[i]]]
    IN  IF Ragged(actions) /\ numpy = "strict" THEN Left(o, e, "ValueError")
        ELSE IF j \in A THEN Left(o, left, "IndexError")
        ELSE Returned(left, [i \in A |-> ResourceExhausted(battery[i])],
                      Truncateds("swarm", count))

\* likewise ReefGuardiansEnv.step; the draw of np.random.random() enters
\* the rewards only
ReefAfter(o, actions) ==
    LET e      == o.engine
        A      == Agents("reef")
        j      == FirstShort("reef", actions)
        count  == e.step_count + 1
        energy == [i \in A |-> IF i <= j THEN ReefDecay(e.resource[i].energy)
                               ELSE e.resource[i].energy]
        left   == [e EXCEPT !.step_count = count,
                            !.resource = [i \in A |-> [energy |-> energy[i]]],
                            !.agent_pos = [i \in A |->
                                IF i < j
                                THEN ReefMove(e.agent_pos[i],
                                              EffAction(actions, i))
                                ELSE e.agent_pos[i]]]
    IN  IF Ragged(actions) /\ numpy = "strict" THEN Left(o, e, "ValueError")
        ELSE IF j \in A THEN Left(o, left, "IndexError")
        ELSE Returned(left, [i \in A |-> ResourceExhausted(energy[i])],
                      Truncateds("reef", count))

SnowplowAfter(o, actions) ==
    LET e     == o.engine
        A     == Agents("snowplow")
        count == e.step_count + 1
        fuel  == [i \in A |-> FuelDecay(e.resource[i].fuel)]
        salt  == [i \in A |-> SaltDecay(e.resource[i].salt)]
        act   == [i \in A |-> Padded(EffAction(actions, i))]
        angle == [i \in A |-> SnowplowTurn(e.agent_angle[i], act[i])]
        pos   == [i \in A |-> SnowplowMove(e.agent_pos[i], angle[i], act[i])]
        left  == [e EXCEPT !.step_count = count,
                           !.resource = [i \in A |->
                               [fuel |-> fuel[i], salt |-> salt[i]]],
                           !.agent_angle = angle,
                           !.agent_pos = pos,
                           !.history = Track(e.history, pos)]
    IN  IF ObservationRaises THEN Left(o, left, "ZeroDivisionError")
        ELSE Returned(left, [i \in A |-> ResourceExhausted(fuel[i])],
                      Truncateds("snowplow", count))

\* step(actions) on the engine of outcome o
StepAfter(o, actions) ==
    CASE scn = "bunny"     -> BunnyAfter(o, actions[1])
      [] scn = "gridworld" -> GridAfter(o, actions[1])
      [] scn = "warehouse" -> WarehouseAfter(o, actions)
      [] scn = "swarm"     -> SwarmAfter(o, actions)
      [] scn = "reef"      -> ReefAfter(o, actions)
      [] scn = "snowplow"  -> SnowplowAfter(o, actions)

\* reset() on the engine of outcome o
ResetAfter(o) ==
    LET e == o.engine
        A == Agents(scn)
    IN  CASE scn = "bunny" ->
                 Left(o, [e EXCEPT !.agent_pos = StartPositions(scn),
                                   !.resource = [i \in A |-> [energy |-> Unit]],
                                   !.step_count = 0,
                                   !.current_goal_idx = 0,
                                   !.current_goal = GoalAt(0)], "none")
          [] scn = "gridworld" ->
                 Left(o, [e EXCEPT !.agent_pos = [i \in A |-> PosOf(<<1, 1>>)],
                                   !.step_count = 0], "none")
          [] scn = "warehouse" ->
                 Left(o, [e EXCEPT !.agent_pos = StartPositions(scn),
                                   !.resource = [i \in A |-> [battery |-> Unit]],
                                   !.step_count = 0], "none")
          [] scn = "swarm" ->
                 Left(o, [e EXCEPT !.agent_pos = StartPositions(scn),
                                   !.resource = [i \in A |-> [battery |-> Unit]],
                                   !.agent_angle = [i \in A |-> 0],
                                   !.history = [i \in A |-> {}],
                                   !.step_count = 0], "none")
          [] scn = "reef" ->
                 Left(o, [e EXCEPT !.agent_pos = StartPositions(scn),
                                   !.resource = [i \in A |-> [energy |-> Unit]],
                                   !.step_count = 0], "none")
          [] scn = "snowplow" ->
                 Left(o, [e EXCEPT !.agent_pos = StartPositions(scn),
                                   !.agent_angle = [i \in A |-> 0],
                                   !.resource = [i \in A |->
                                       [fuel |-> Unit, salt |-> Unit]],
                                   !.history = [i \in A |-> {}],
                                   !.step_count = 0],
                      IF ObservationRaises THEN "ZeroDivisionError" ELSE "none")

-----------------------------------------------------------------------------
(* Vocabulary of the properties *)

IsStep == call.op = "step"

\* the transition is a call on this engine, not one on another engine of
\* the process
Called == ~OtherInstance

\* the action of a batch that agent i carries out
TakenBy(actions, i) == IF Len(actions) > i THEN actions[i + 1] ELSE actions[1]

\* the resource whose exhaustion ends an agent's episode
Primary(s) ==
    CASE s = "bunny" -> "energy" [] s = "reef" -> "energy"
      [] s = "snowplow" -> "fuel" [] OTHER -> "battery"

\* Euclidean distance below 1.0 between a position and a goal cell
Near(goal, p) ==
    (goal[1] * Unit - p[1]) * (goal[1] * Unit - p[1])
        + (goal[2] * Unit - p[2]) * (goal[2] * Unit - p[2]) < Unit * Unit

\* the cell a discrete move aims at, before any clamping
RawTarget(s, p, action) ==
    LET c  == <<p[1] \div Unit, p[2] \div Unit>>
        up == IF s = "bunny" THEN 1 ELSE -1
    IN  CASE action = 0 -> <<c[1], c[2] + up>>
          [] action = 1 -> <<c[1], c[2] - up>>
          [] action = 2 -> <<c[1] - 1, c[2]>>
          [] action = 3 -> <<c[1] + 1, c[2]>>
          [] OTHER      -> c

\* a cell outside the grid or holding a static obstacle
StaticBlocked(c) ==
    \/ c[1] < 0 \/ c[1] > 24 \/ c[2] < 0 \/ c[2] > 24
    \/ c \in level_config.static_obstacles

\* what ends agent i's episode: in GridWorld an obstacle hit or standing
\* on the goal cell, elsewhere an exhausted primary resource
TerminationCondition(i) ==
    IF scn = "gridworld"
    THEN ev.blocked[i] \/ agent_pos[i] = <<23 * Unit, 23 * Unit>>
    ELSE resource[i][Primary(scn)] <= 0

\* a step() call was made, whether it returned or raised
StepCalled == call.op \in {"step", "step_raised"}

\* the scenarios with a Discrete action space, and the space
DiscreteScenarios == {"bunny", "gridworld", "warehouse"}

ActionSpace(s) == IF s = "warehouse" THEN 0 .. 4 ELSE 0 .. 3

MultiAgentScenarios == {"warehouse", "swarm", "reef", "snowplow"}

\* a batch with fewer actions than agents, or holding a continuous action
\* vector with fewer components than the scenario reads
WrongArity(s, actions) ==
    \/ Len(actions) < num_agents(s)
    \/ /\ s # "warehouse"
       /\ \E j \in 1 .. Len(actions) : Len(actions[j]) < 2

\* the wrong arities the code accepts: a batch of full actions that is
\* shorter than the agent count, or (SnowplowFleet) short vectors
ToleratedArity(s, actions) ==
    /\ WrongArity(s, actions)
    /\ s \in {"swarm", "reef"} => \A j \in 1 .. Len(actions) : Len(actions[j]) >= 2

\* a call on the engine raised
CallRaised == call.op \in {"step_raised", "reset_raised"}

\* the level lacks a goal, or a start position for some agent
MissingGoalOrStart ==
    \/ Len(level_config.goal_positions) = 0
    \/ Len(level_config.start_positions) < num_agents(scn)

\* the fields of a level that hold its cells, and their parsed names
LevelFields ==
    [staticObstacles |-> "static_obstacles", goalPositions |-> "goal_positions",
     startPositions |-> "start_positions"]

\* the coordinates probed around and inside the 25x25 grid
Probes == -2 .. 26

\* the cells the level2 obstacles hold n ticks after construction
FirstEpisodeCells(n) == {ObstacleCell(id, n) : id \in ObstacleIds}

-----------------------------------------------------------------------------
(* C1  Truncation exactness: the k-th consecutive step() after reset()     *)
(* returns truncated = false for every agent when k is below the step      *)
(* budget and truncated = true for every agent when k equals it, whatever  *)
(* the actions (the k calls are calls that returned: none of them raised). *)
C1_TruncationExact ==
    (IsStep /\ ~faulted /\ k <= MaxSteps(scn)) =>
        \A i \in Agents(scn) : ret.truncated[i] = (k = MaxSteps(scn))

\* the 500th step of a SwarmDrones episode, truncated for all four drones
C1_Witness ==
    /\ IsStep /\ scn = "swarm" /\ k = 500
    /\ \A i \in Agents(scn) : ret.truncated[i]

(* C2  As claimed: in every reachable state 0 <= stepCount <= maxSteps and *)
(* truncated is true exactly when stepCount = maxSteps.                    *)
C2_CounterBounded ==
    /\ 0 <= step_count /\ step_count <= MaxSteps(scn)
    /\ IsStep => \A i \in Agents(scn) :
                    ret.truncated[i] <=> (step_count = MaxSteps(scn))

(* C2  As amended: stepCount >= 0 and truncated is true exactly when       *)
(* stepCount >= maxSteps after the step; the counter is not capped: a      *)
(* step() that returns once stepCount has reached maxSteps takes it past   *)
(* maxSteps and returns truncated = true again.                            *)
C2_CounterAmended ==
    /\ [](/\ 0 <= step_count
          /\ IsStep => \A i \in Agents(scn) :
                          ret.truncated[i] <=> (step_count >= MaxSteps(scn)))
    /\ [][(Called /\ call'.op = "step" /\ step_count >= MaxSteps(scn))
             => /\ step_count' > MaxSteps(scn)
                /\ \A i \in Agents(scn) : ret'.truncated[i]]_vars

\* a step() issued after the truncated tick: the counter is past the budget
C2_Witness ==
    /\ IsStep /\ step_count > MaxSteps(scn)
    /\ \A i \in Agents(scn) : ret.truncated[i]

(* C3  Resource monotonicity: across a step() in which an agent does not   *)
(* take a replenishing action (WarehouseBots charge), none of its          *)
(* resources increases; and no resource is ever below 0.                   *)
C3_ResourceMonotone ==
    /\ [][(Called /\ call'.op = "step") =>
            \A i \in Agents(scn) : \A r \in DOMAIN resource[i] :
                ~(scn = "warehouse" /\ TakenBy(call'.actions, i) = 4)
                    => resource'[i][r] <= resource[i][r]]_vars
    /\ [](\A i \in Agents(scn) : \A r \in DOMAIN resource[i] :
              resource[i][r] >= 0)

\* a snowplow whose fuel has decayed to 0 and stayed there, salt still left
C3_Witness ==
    /\ IsStep /\ scn = "snowplow" /\ step_count > 100
    /\ resource[0].fuel = 0 /\ resource[0].salt > 0

(* C4  Every resource of every agent lies in [0, 1] in every reachable     *)
(* state, also after consecutive WarehouseBots charge actions.             *)
C4_ResourceRange ==
    \A i \in Agents(scn) : \A r \in DOMAIN resource[i] :
        0 <= resource[i][r] /\ resource[i][r] <= Unit

\* a second charge in a row by bot 0, its battery capped at 1.0
C4_Witness ==
    /\ IsStep /\ scn = "warehouse" /\ k = 2 /\ ret.reward[0] = -1
    /\ TakenBy(call.actions, 0) = 4 /\ resource[0].battery = Unit

(* C5  Per-agent termination: in the five resource scenarios terminated is *)
(* true for an agent if and only if its primary resource is <= 0 after the *)
(* tick; reaching a goal does not set it.                                  *)
C5_TerminatedIffExhausted ==
    (IsStep /\ scn # "gridworld") =>
        \A i \in Agents(scn) :
            ret.terminated[i] <=> (resource[i][Primary(scn)] <= 0)

\* the bunny reached its goal and the episode is not terminated
C5_Witness ==
    /\ IsStep /\ scn = "bunny" /\ ev.goal[0]
    /\ ~ret.terminated[0] /\ resource[0].energy > 0

(* C6  Termination and truncation are independent: each flag is returned   *)
(* exactly when its own condition holds, so on a tick where both hold both *)
(* are true; BunnyGarden's energy is exhausted on the tick that truncates. *)
C6_FlagsIndependent ==
    /\ IsStep =>
         \A i \in Agents(scn) :
            /\ ret.terminated[i] <=> TerminationCondition(i)
            /\ ret.truncated[i] <=> (step_count >= MaxSteps(scn))
    /\ scn = "bunny" => (resource[0].energy = 0 <=> step_count >= 500)

\* tick 500 of BunnyGarden: terminated and truncated together
C6_Witness ==
    /\ IsStep /\ scn = "bunny" /\ k = 500
    /\ ret.terminated[0] /\ ret.truncated[0]

(* C7  Goal cycling: in BunnyGarden with N > 1 goals, a tick that ends     *)
(* within distance < 1.0 of the active goal moves currentGoalIndex to      *)
(* (old + 1) mod N and the active goal to goalCells[new index]; any other  *)
(* tick leaves the index unchanged.                                        *)
C7_GoalCycling ==
    [][(Called /\ call'.op = "step" /\ scn = "bunny"
            /\ Len(level_config.goal_positions) > 1) =>
        LET N    == Len(level_config.goal_positions)
            goal == level_config.goal_positions[current_goal_idx + 1]
        IN  IF Near(goal, agent_pos'[0])
            THEN /\ current_goal_idx' = (current_goal_idx + 1) % N
                 /\ current_goal' = level_config.goal_positions[current_goal_idx' + 1]
            ELSE current_goal_idx' = current_goal_idx]_vars

\* the bunny reached the last of two goals and the index wrapped to 0
C7_Witness ==
    /\ IsStep /\ scn = "bunny" /\ Len(level_config.goal_positions) = 2
    /\ ev.goal[0] /\ current_goal_idx = 0
    /\ agent_pos[0] = <<0, 0>>

(* C8  Blocked-move rejection: in BunnyGarden and GridWorld a step() whose *)
(* move aims at a static obstacle or outside the grid leaves the position  *)
(* unchanged, and the agent's cell is never a static obstacle.             *)
C8_BlockedMoveRejected ==
    /\ [][(Called /\ call'.op = "step" /\ scn \in {"bunny", "gridworld"}) =>
            (StaticBlocked(RawTarget(scn, agent_pos[0], call'.actions[1]))
                => agent_pos'[0] = agent_pos[0])]_vars
    /\ [](scn \in {"bunny", "gridworld"}
            => CellOf(agent_pos[0]) \notin level_config.static_obstacles)

\* the bunny's move was aimed at an obstacle and rejected
C8_Witness ==
    /\ IsStep /\ scn = "bunny" /\ ev.blocked[0]
    /\ call.actions[1] \in 0 .. 3

(* C9  Every agent position stays inside the grid: both coordinates lie in *)
(* [0, size - 1] in every reachable state of every scenario.               *)
C9_PositionsInGrid ==
    \A i \in Agents(scn) :
        /\ 0 <= agent_pos[i][1] /\ agent_pos[i][1] <= 24 * Unit
        /\ 0 <= agent_pos[i][2] /\ agent_pos[i][2] <= 24 * Unit

\* drone 2, on the wall x = 24 and heading into it, thrust and stayed
C9_Witness ==
    /\ IsStep /\ scn = "swarm" /\ TakenBy(call.actions, 2) = <<0, 1>>
    /\ agent_angle[2] = 0 /\ agent_pos[2] = <<24 * Unit, 0>>

(* C10  Collision tie-break: when two agents of a multi-agent scenario     *)
(* with hard collisions aim at the same cell, the higher-id agent stays,   *)
(* so no two agents occupy the same cell after a tick.                     *)
C10_NoSharedCell ==
    (IsStep /\ scn = "warehouse") =>
        \A i \in Agents(scn) : \A j \in Agents(scn) :
            i < j => CellOf(agent_pos[i]) # CellOf(agent_pos[j])

-----------------------------------------------------------------------------
(* C11  Out-of-range discrete actions are rejected: a step() of            *)
(* BunnyGarden or GridWorld with an action outside 0..3, or of             *)
(* WarehouseBots with an action outside 0..4, fails with an invalid-action *)
(* error and leaves the step counter, the resources, the positions, the    *)
(* goal index and the moving obstacles as they were.                       *)
(* The code has no such check: the call returns and the tick is counted.   *)
C11_OutOfRangeRejected ==
    [][(Called /\ StepCalled' /\ scn \in DiscreteScenarios
          /\ \E i \in Agents(scn) :
                 TakenBy(call'.actions, i) \notin ActionSpace(scn))
       => /\ call'.op = "step_raised"
          /\ UNCHANGED <<step_count, resource, agent_pos, current_goal_idx,
                         current_goal, moving_obstacles>>]_vars

-----------------------------------------------------------------------------
-----------------------------------------------------------------------------
(* C13  Step atomicity on failure: whenever a step() call raises, the step *)
(* counter and the resources, headings, positions and histories of all     *)
(* agents are the same as before the call.                                 *)
(* The code validates nothing up front: the counter is incremented before  *)
(* the agent loop and each agent is updated before the next one's action   *)
(* is read.                                                                *)
C13_FailedStepAtomic ==
    [][(Called /\ call'.op = "step_raised")
       => UNCHANGED <<step_count, resource, agent_angle, agent_pos,
                      history>>]_vars

-----------------------------------------------------------------------------
(* C14  Configuration errors surface at construction: a level with an      *)
(* empty goalPositions or startPositions list, or with fewer start         *)
(* positions than agents, fails to construct, so no reset() or step() on   *)
(* an engine fails because a goal or start position is missing.            *)
(* Only BunnyGarden's constructor reads the lists' elements; the others    *)
(* construct, and their first reset() or step() raises in _get_observation *)
(* (or on agent_pos[i]).                                                   *)
C14_ConfigErrorsAtConstruction ==
    (scn # "gridworld" /\ CallRaised) => ~MissingGoalOrStart

-----------------------------------------------------------------------------
(* C15  Missing configuration fields fall back to the scenario's defaults: *)
(* an engine built from a level that omits staticObstacles, goalPositions  *)
(* or startPositions has the built-in default for that field (stated for   *)
(* BunnyGarden, whose default level is BunnyDefaultLevel).                 *)
(* The constructors read a missing field as an empty list.                 *)
C15_MissingFieldsDefault ==
    scn = "bunny" =>
        \A f \in DOMAIN LevelFields :
            f \notin level_config.given
                => level_config[LevelFields[f]] = BunnyDefaultLevel[LevelFields[f]]

-----------------------------------------------------------------------------
(* C16  The configured gridSize determines the grid extent: for a level    *)
(* with gridSize = s, positions are clamped to [0, s-1] and                *)
(* _is_blocked(x, y) is true for every coordinate outside [0, s).          *)
(* BunnyGardenEnv sets grid_size = 25 whatever the level says.             *)
C16_GridSizeConfigured ==
    (scn = "bunny" /\ IsStep) =>
        LET s == level_config.gridSize
        IN  /\ \A c \in 1 .. 2 :
                  0 <= agent_pos[0][c] /\ agent_pos[0][c] <= (s - 1) * Unit
            /\ \A x, y \in Probes :
                  (x < 0 \/ x >= s \/ y < 0 \/ y >= s) => _is_blocked(x, y)

-----------------------------------------------------------------------------
(* C17  _is_blocked(x, y) is true if and only if x or y lies outside       *)
(* [0, size) or (x, y) is a static obstacle, for out-of-range coordinates  *)
(* too; size is the engine's grid_size, 25.                                *)
C17_IsBlockedContract ==
    scn = "bunny" =>
        \A x, y \in Probes :
            _is_blocked(x, y) <=>
                \/ x \notin 0 .. 24
                \/ y \notin 0 .. 24
                \/ \E c \in level_config.static_obstacles : c[1] = x /\ c[2] = y

\* a move has just been refused on a wall of the high room, next to the
\* grid's edge: the cell beyond the edge is blocked, the bunny's own is not
C17_Witness ==
    /\ IsStep /\ scn = "bunny" /\ ev.blocked[0]
    /\ level_config = BunnyHighRoom
    /\ agent_pos[0] = <<23 * Unit, 24 * Unit>>
    /\ call.actions = <<2>>
    /\ _is_blocked(22, 24) /\ _is_blocked(23, 25) /\ _is_blocked(-1, 24)
    /\ ~_is_blocked(23, 24)

-----------------------------------------------------------------------------
(* C18: after reset() the step counter is 0, every agent is at its        *)
(* configured start position, every resource is at its initial value, the *)
(* headings are 0, the visited / cleared cells are empty and the goal     *)
(* index is 0; and the observation batch a reset() returns is the one of  *)
(* a newly constructed engine, whatever steps came before: any two        *)
(* reset() calls return the same batch.                                   *)

ResetCalled == call.op \in {"reset", "reset_raised"}

C18_ResetRestores ==
    ResetCalled =>
        /\ step_count = 0
        /\ current_goal_idx = 0
        /\ \A i \in Agents(scn) :
               /\ agent_pos[i] = PosOf(level_config.start_positions[i + 1])
               /\ resource[i] = InitialResource(scn)
               /\ agent_angle[i] = 0
               /\ history[i] = {}
        /\ call.op = "reset" =>
               Observation(Engine) = Observation(InitialEngine(scn, level_config))

\* a reset() of BunnyGarden right after the step that reached the first of
\* two goals
C18_Witness ==
    /\ call.op = "reset"
    /\ scn = "bunny"
    /\ Len(level_config.goal_positions) = 2
    /\ ev.goal[0]

-----------------------------------------------------------------------------
(* C19  Obstacle replay from reset: in GridWorld level2 the occupied cells *)
(* after the k-th step() of an episode are those after the k-th step() of  *)
(* the first episode, i.e. reset() rewinds the moving obstacles.           *)
(* GridWorldEnv.reset() leaves moving_obstacles alone, so the second       *)
(* episode continues the obstacles' time where the first one stopped.      *)
C19_ObstacleReplay ==
    (IsStep /\ scn = "gridworld" /\ level_config.level = "level2")
        => _get_occupied_cells(moving_obstacles)
               = level_config.static_obstacles \cup FirstEpisodeCells(k)

-----------------------------------------------------------------------------
(* C20: two engines constructed alike and driven through the same calls   *)
(* are in the same state after every call and return the same observation *)
(* batches, terminated and truncated flags and occupied cells.  A newly   *)
(* constructed engine is in the state its scenario and level fix; and     *)
(* what a call leaves and returns (or raises) is what the same call       *)
(* leaves and returns on a second engine in the same state, whose         *)
(* outcome is computed from its own fields and the arguments alone,       *)
(* whatever the random draws of the first engine were.                    *)

\* the engine, the flags it last returned and the error of its last call
Observable ==
    [engine |-> Engine, terminated |-> ret.terminated,
     truncated |-> ret.truncated,
     error |-> IF CallRaised THEN call.error ELSE "none"]

\* the outcome of the last call's request on the engine of outcome o
SecondEngine(o, c) ==
    IF c.op \in {"step", "step_raised"} THEN StepAfter(o, c.actions)
    ELSE ResetAfter(o)

C20_TwoEngines ==
    /\ [](call.op = "init" =>
            /\ Engine = InitialEngine(scn, level_config)
            /\ Observable = Returned(Engine, NoReturn(scn).terminated,
                                     NoReturn(scn).truncated))
    /\ [][Called =>
          \A second \in {SecondEngine(Observable, call')} :
          \A first \in {Observable'} :
              /\ first = second
              /\ second.error = "none" =>
                     Observation(first.engine) = Observation(second.engine)
              /\ _get_occupied_cells(first.engine.moving_obstacles)
                     = _get_occupied_cells(second.engine.moving_obstacles)]_vars

\* a ReefGuardians step in which the draw succeeded for one agent and
\* failed for another
C20_Witness ==
    /\ scn = "reef"
    /\ IsStep
    /\ ret.reward[0] = 19
    /\ ret.reward[1] = -1

-----------------------------------------------------------------------------
(* C21  Seeded reproducibility of rewards: the random draws of an episode  *)
(* derive from the seed given to reset(), so the rewards of the step()     *)
(* that follows reset(seed=k) do not depend on the state of the            *)
(* process-wide generator: whatever state np.random is in, the step        *)
(* returns the same rewards.                                               *)
(* ReefGuardians draws the algae bonus from np.random, which reset(seed)   *)
(* does not seed.                                                          *)
C21_SeededRewards ==
    [][(Called /\ scn = "reef" /\ call.op = "reset" /\ call'.op = "step")
       => \A g \in Generators :
             ret'.reward = [i \in Agents("reef") |-> ReefReward(i, Drawn(g))]]_vars

-----------------------------------------------------------------------------
(* C22  Instance independence: a call on another engine of the process     *)
(* leaves this engine's state as it is and changes nothing that this       *)
(* engine's next call returns: not the fields the observation and the      *)
(* flags are computed from, and not the rewards of its next step().        *)
(* The engines share np.random: another ReefGuardians' step() draws from   *)
(* it and another GridWorld's reset(seed) reseeds it, and either changes   *)
(* the algae bonuses this engine's next step() returns.                    *)

\* the rewards the next step() of this ReefGuardians engine returns
NextRewards == [i \in Agents("reef") |-> ReefReward(i, Drawn(generator))]

C22_InstanceIndependence ==
    [][OtherInstance => /\ Observable' = Observable
                        /\ NextRewards' = NextRewards]_vars

-----------------------------------------------------------------------------
(* C23  Observation shape: every observation vector that reset() or a      *)
(* step() returns has the length the scenario declares as its observation  *)
(* dimension, for every agent and at every tick.                           *)
(* The vectors have a fixed length, but in the four multi-agent scenarios  *)
(* it is not the declared one: WarehouseBots builds 41 entries and         *)
(* declares 34, SwarmDrones 24 for 26, ReefGuardians 19 for 15,            *)
(* SnowplowFleet 32 for 30.                                                *)
C23_ObservationShape ==
    call.op \in {"reset", "step"} =>
        ObservationLength(scn) = observation_space(scn)

-----------------------------------------------------------------------------
(* C24  The greedy walk: in the BunnyGarden without obstacles (grid 25,    *)
(* start (1, 1), one goal (23, 23)), driven from construction or reset()   *)
(* by moves toward the goal in any order, the walk has 22 + 22 = 44 ticks; *)
(* the bunny is within distance < 1.0 of the goal for the first time on    *)
(* tick 44, the rewards of the 44 ticks sum to 44 * (-0.01) + 1.0 = 0.56,  *)
(* and tick 44 returns terminated = false and truncated = false.           *)

\* the moves from the start to the goal: the cells between them along x and y
WalkTicks ==
    LET start == BunnyOpenLevel.start_positions[1]
        goal  == BunnyOpenLevel.goal_positions[1]
    IN  (goal[1] - start[1]) + (goal[2] - start[2])

C24_GreedyWalk ==
    (scn = "bunny" /\ level_config = BunnyOpenLevel /\ driver = "greedy") =>
        /\ step_count <= WalkTicks
        /\ WalkTicks = 22 + 22
        /\ step_count < WalkTicks =>
               /\ ~DistLt1(GoalAt(0), agent_pos[0])
               /\ call.op = "step" => ~ev.goal[0] /\ ret.reward[0] = -1
               /\ cumulative_reward = step_count * (-1)
        /\ step_count = WalkTicks =>
               /\ call.op = "step"
               /\ DistLt1(GoalAt(0), agent_pos[0])
               /\ ev.goal[0]
               /\ cumulative_reward = WalkTicks * (-1) + 100
               /\ cumulative_reward = 56
               /\ ~ret.terminated[0]
               /\ ~ret.truncated[0]

C24_Witness ==
    /\ scn = "bunny" /\ driver = "greedy" /\ call.op = "step"
    /\ step_count = 44
    /\ agent_pos[0] = PosOf(<<23, 23>>)
    /\ cumulative_reward = 56

-----------------------------------------------------------------------------
(* C25  The step penalty is always present: on every tick the reward is    *)
(* -0.01 plus the other terms that apply on the tick (goal bonus +1.0,     *)
(* collision penalty -1.0), also on a tick that reaches the goal or hits   *)
(* an obstacle.  Stated for the single-agent engines, whose ticks record   *)
(* both events; BunnyGarden has no collision term.                         *)
(* GridWorld returns the bare -1.0 on a hit and the bare +1.0 on the goal. *)
C25_StepPenaltyPresent ==
    (IsStep /\ scn \in {"bunny", "gridworld"}) =>
        ret.reward[0] = -1 + (IF ev.goal[0] THEN 100 ELSE 0)
                           + (IF scn = "gridworld" /\ ev.blocked[0]
                              THEN -100 ELSE 0)

-----------------------------------------------------------------------------
(* C26  Goal events in every scenario: on a tick after which an agent of   *)
(* a multi-agent engine is within distance < 1.0 of its goal, a goal event *)
(* is raised for the agent and its reward includes the goal bonus (in      *)
(* WarehouseBots the documented +0.5 per delivery).                        *)
(* The multi-agent engines only observe the goal: no step() compares a     *)
(* position with it.                                                       *)
C26_GoalEvents ==
    (IsStep /\ scn \in MultiAgentScenarios
        /\ Len(level_config.goal_positions) > 0) =>
        \A i \in Agents(scn) :
            Near(GoalOf(i), agent_pos[i]) =>
                /\ ev.goal[i]
                /\ scn = "warehouse" => ret.reward[i] >= 50 - 1

-----------------------------------------------------------------------------
(* C27  BunnyGarden obstacle penalty: a tick whose proposed cell holds a   *)
(* static obstacle leaves the bunny in place and its reward includes the   *)
(* documented -1.0.                                                        *)
(* step() rejects the move and charges the step cost only.                 *)
C27_ObstaclePenalty ==
    (scn = "bunny" /\ IsStep /\ ev.blocked[0]) =>
        ret.reward[0] = -1 - 100 + (IF ev.goal[0] THEN 100 ELSE 0)

-----------------------------------------------------------------------------
(* C28  WarehouseBots hard collisions: a move into a static-obstacle cell  *)
(* is rejected with the documented -0.5, hence in no reachable state is a  *)
(* bot's cell a static-obstacle cell.                                      *)
(* step() moves the bots without reading static_obstacles.                 *)
C28_NoBotInObstacle ==
    scn = "warehouse" =>
        \A i \in Agents(scn) :
            CellOf(agent_pos[i]) \notin level_config.static_obstacles

-----------------------------------------------------------------------------
(* C29  The visited cells of SwarmDrones and the cleared cells of          *)
(* SnowplowFleet only grow within an episode: the history of every agent   *)
(* after a step() includes its history before the call, after a step()     *)
(* that returned it contains the cell of the agent's position, and after   *)
(* a reset() it is empty.                                                  *)

\* the scenarios that keep a cell history
TrackingScenarios == {"swarm", "snowplow"}

C29_HistoryGrows ==
    /\ []((scn \in TrackingScenarios /\ ResetCalled) =>
              \A i \in Agents(scn) : history[i] = {})
    /\ []((scn \in TrackingScenarios /\ IsStep) =>
              \A i \in Agents(scn) : CellOf(agent_pos[i]) \in history[i])
    /\ [][(scn \in TrackingScenarios /\ k' = k + 1) =>
              \A i \in Agents(scn) : history[i] \subseteq history'[i]]_vars

\* a drone in its second cell of the episode
C29_Witness ==
    /\ scn = "swarm" /\ IsStep
    /\ \E i \in Agents(scn) :
           /\ Cardinality(history[i]) = 2
           /\ CellOf(agent_pos[i]) \in history[i]

-----------------------------------------------------------------------------
(* C30  Every tick advances the obstacles: where the level has moving      *)
(* obstacles (GridWorld level2, SnowplowFleet with movingObstacles), each  *)
(* step() adds one increment to the accumulated time of every moving       *)
(* obstacle and recomputes its position from it, so that the time is k     *)
(* increments after k steps from construction.                             *)
(* GridWorld does so.  SnowplowFleet keeps the movingObstacles list as the *)
(* level gave it: step() never touches it, and its entries have no time.   *)

\* the increments of time an obstacle has accumulated: obs["t"] where the
\* obstacle has the field
AccumulatedTime(obs) == IF "t" \in DOMAIN obs THEN obs.t ELSE 0

C30_ObstaclesAdvance ==
    [][(scn \in {"gridworld", "snowplow"} /\ k' = k + 1) =>
          \A id \in DOMAIN moving_obstacles :
              AccumulatedTime(moving_obstacles'[id])
                  = AccumulatedTime(moving_obstacles[id]) + 1]_vars

-----------------------------------------------------------------------------
(* C31  Tick ordering in GridWorld: a step() advances the moving obstacles *)
(* first, then proposes the agent's move and checks it against the cells   *)
(* the obstacles have on this tick, not those of the end of the previous   *)
(* tick; the step counter is incremented before truncation is evaluated.   *)

\* the cells of the moving obstacles in a table of obstacles
MovingCells(obstacles) ==
    {<<obstacles[id].x, obstacles[id].y>> : id \in DOMAIN obstacles}

C31_TickOrdering ==
    [][(Called /\ scn = "gridworld" /\ call'.op = "step") =>
          \A target \in {RawTarget(scn, agent_pos[0], call'.actions[1])} :
              /\ \A id \in DOMAIN moving_obstacles :
                     moving_obstacles'[id].t = moving_obstacles[id].t + 1
              /\ ev'.blocked[0] <=>
                     target \in level_config.static_obstacles
                                   \cup MovingCells(moving_obstacles')
              /\ agent_pos'[0] = IF ev'.blocked[0] THEN agent_pos[0]
                                 ELSE PosOf(target)
              /\ step_count' = step_count + 1
              /\ ret'.truncated[0] <=> step_count' >= MaxSteps(scn)]_vars

\* a move rejected by an obstacle that arrived in the target cell on this
\* tick, or a move into the cell an obstacle left on this tick
C31_Witness ==
    /\ scn = "gridworld" /\ IsStep
    /\ call.actions = <<3>>
    /\ "mov1" \in DOMAIN moving_obstacles
    /\ moving_obstacles["mov1"].t > 1
    /\ LET now    == <<moving_obstacles["mov1"].x, moving_obstacles["mov1"].y>>
           before == ObstacleCell("mov1", moving_obstacles["mov1"].t - 1)
       IN  /\ now # before
           /\ \/ /\ ev.blocked[0]
                 /\ RawTarget(scn, agent_pos[0], 3) = now
              \/ /\ ~ev.blocked[0]
                 /\ CellOf(agent_pos[0]) = before

-----------------------------------------------------------------------------
(* C32  GridWorld outcome per tick: if the cell moved to is occupied (by a *)
(* static or a moving obstacle) the agent is put back where it was, the    *)
(* reward is exactly -1.0 and terminated is true; otherwise, if the agent  *)
(* is on the goal cell, the reward is exactly 1.0 and terminated is true;  *)
(* otherwise the reward is -0.01 and terminated is false.  A hit takes     *)
(* priority over the goal when both hold on a tick.                        *)
C32_GridOutcome ==
    [][(Called /\ scn = "gridworld" /\ call'.op = "step") =>
          \A target \in {RawTarget(scn, agent_pos[0], call'.actions[1])} :
              IF target \in level_config.static_obstacles
                                \cup MovingCells(moving_obstacles')
              THEN /\ agent_pos' = agent_pos
                   /\ ret'.reward[0] = -100
                   /\ ret'.terminated[0]
              ELSE /\ agent_pos'[0] = PosOf(target)
                   /\ IF target = level_config.goal_positions[1]
                      THEN ret'.reward[0] = 100 /\ ret'.terminated[0]
                      ELSE ret'.reward[0] = -1 /\ ~ret'.terminated[0]]_vars

\* a move from the goal cell into the border: hit and goal on one tick
C32_Witness ==
    /\ scn = "gridworld" /\ IsStep
    /\ CellOf(agent_pos[0]) = level_config.goal_positions[1]
    /\ ev.blocked[0]
    /\ ret.reward[0] = -100
    /\ ret.terminated[0]

-----------------------------------------------------------------------------
(* C33  Termination is stable within an episode: once a step() has         *)
(* returned terminated = true for an agent, the next step() of the episode *)
(* returns terminated = true for it as well, whatever the actions.         *)
(* GridWorld returns terminated = false for a free move made after a hit,  *)
(* and WarehouseBots for a bot that charges at battery 0.                  *)
C33_TerminationStable ==
    [][(Called /\ IsStep /\ call'.op = "step") =>
          \A i \in Agents(scn) :
              ret.terminated[i] => ret'.terminated[i]]_vars

-----------------------------------------------------------------------------
-----------------------------------------------------------------------------
(* C35  Per-agent updates do not interact: in the multi-agent scenarios a  *)
(* step() leaves agent i with a position, heading, resources and history   *)
(* that depend on agent i's own state before the tick and on agent i's     *)
(* action only.  Stated for batches with one action per agent: the step    *)
(* leaves every agent i as the same step would with another agent j in     *)
(* another state (its start state) and given another action.               *)

\* what a step() leaves of agent i
AgentFields(e, i) ==
    <<e.agent_pos[i], e.agent_angle[i], e.resource[i], e.history[i]>>

\* the outcome o with agent j back in the state it is constructed in
Displaced(o, j) ==
    [o EXCEPT !.engine.agent_pos[j] = PosOf(level_config.start_positions[j + 1]),
              !.engine.agent_angle[j] = 0,
              !.engine.resource[j] = InitialResource(scn),
              !.engine.history[j] = {}]

\* the other actions tried for agent j: none, and a forward move (with a
\* turn where the action has one)
OtherActions(s) == {Idle(s), IF s = "warehouse" THEN 0 ELSE <<1, 1>>}

C35_AgentsIndependent ==
    [][(Called /\ scn \in MultiAgentScenarios /\ call'.op = "step"
           /\ Len(call'.actions) = num_agents(scn)) =>
          \A j \in Agents(scn) : \A a \in OtherActions(scn) :
              \A other \in {StepAfter(Displaced(Observable, j),
                                      [call'.actions EXCEPT ![j + 1] = a])} :
              \A left \in {Engine'} :
                  \A i \in Agents(scn) \ {j} :
                      AgentFields(other.engine, i) = AgentFields(left, i)]_vars

\* a drone that turned and flew while the others idled beside it
C35_Witness ==
    /\ scn = "swarm" /\ IsStep
    /\ Len(call.actions) = num_agents(scn)
    /\ call.actions[2] = <<1, 1>>
    /\ agent_angle[1] = 1
    /\ agent_pos[1] # PosOf(level_config.start_positions[2])
    /\ \A i \in Agents(scn) \ {1} :
           agent_pos[i] = PosOf(level_config.start_positions[i + 1])

-----------------------------------------------------------------------------
(* C36  The new-cell bonus is paid once per cell: in SwarmDrones (+0.1)    *)
(* and SnowplowFleet (+0.3) the reward of an agent for a tick includes the *)
(* bonus exactly when the cell of its position after the step was not in   *)
(* its history, and the history grows by that one cell exactly then; so    *)
(* from an empty history on, the bonuses an agent has been paid are as     *)
(* many as the cells of its history, the start cell included.              *)

\* the bonus of the scenario, in hundredths
NewCellBonus(s) == IF s = "swarm" THEN 10 ELSE 30

C36_BonusOncePerCell ==
    [][(Called /\ scn \in TrackingScenarios /\ call'.op = "step") =>
          \A i \in Agents(scn) :
              \A new \in {CellOf(agent_pos'[i]) \notin history[i]} :
                  /\ ret'.reward[i] = (IF new THEN NewCellBonus(scn) ELSE 0) - 1
                  /\ Cardinality(history'[i])
                         = Cardinality(history[i]) + (IF new THEN 1 ELSE 0)]_vars

\* the second tick of a drone that has not left its start cell: the bonus
\* was paid on the first tick and is not paid again
C36_Witness ==
    /\ scn = "swarm" /\ IsStep
    /\ step_count = 2
    /\ agent_pos[0] = PosOf(level_config.start_positions[1])
    /\ history[0] = {level_config.start_positions[1]}
    /\ ret.reward[0] = -1

-----------------------------------------------------------------------------
(* C37  The goal bonus is paid once per arrival: in BunnyGarden with a     *)
(* single goal, the tick after a tick that reached the goal does not pay   *)
(* +1.0 again (the bunny cannot leave the goal's proximity and come back   *)
(* within one tick), in particular not when the bunny stays on the goal    *)
(* cell.                                                                   *)
(* With one goal the goal index wraps to the same goal, and every tick on  *)
(* which the bunny is still within 1.0 of it pays the bonus again.         *)
C37_GoalBonusOnce ==
    [][(Called /\ scn = "bunny" /\ Len(level_config.goal_positions) = 1
           /\ IsStep /\ ev.goal[0] /\ call'.op = "step") =>
          ret'.reward[0] = -1]_vars

-----------------------------------------------------------------------------
(* C38  Observations stay inside the declared observation_space: in        *)
(* GridWorld, BunnyGarden and WarehouseBots (Box with low 0 and high 25)   *)
(* every component of every observation returned by reset() and step() is  *)
(* in [0, 25], the distance to the goal and the neighbour offsets          *)
(* included.                                                               *)
(* The distance from (1, 1) to (23, 23) is 31.1, and the offset to a       *)
(* neighbour on the left or below is negative.                             *)

\* a component in thousandths within [low, high] of the Box
InBox(v) == 0 <= v /\ v <= grid_size * Unit

\* a squared distance (of thousandths) whose root is within the Box
RootInBox(d2) == d2 <= (grid_size * Unit) * (grid_size * Unit)

C38_ObservationsInBox ==
    (call.op \in {"reset", "step"}
        /\ scn \in {"bunny", "gridworld", "warehouse"}) =>
        \A obs \in {Observation(Engine)} :
            CASE scn = "bunny" ->
                     /\ InBox(obs[0][1]) /\ InBox(obs[0][2])
                     /\ InBox(obs[0][3] * Unit) /\ InBox(obs[0][4] * Unit)
                     /\ RootInBox(obs[0][5])
                     /\ InBox(obs[0][6])
              [] scn = "gridworld" ->
                     /\ InBox(obs[0][1]) /\ InBox(obs[0][2])
                     /\ InBox(obs[0][3] * Unit) /\ InBox(obs[0][4] * Unit)
                     /\ RootInBox(obs[0][5])
              [] scn = "warehouse" ->
                     \A i \in Agents(scn) :
                         /\ InBox(obs[i][1][1]) /\ InBox(obs[i][1][2])
                         /\ InBox(obs[i][2][1] * Unit)
                         /\ InBox(obs[i][2][2] * Unit)
                         /\ RootInBox(obs[i][3])
                         /\ InBox(obs[i][4])
                         /\ \A j \in 0 .. 3 :
                                /\ InBox(obs[i][8][j][1])
                                /\ InBox(obs[i][8][j][2])

-----------------------------------------------------------------------------
(* C39  Driver protocol: in DQNTrainer.collect_experience and              *)
(* PPOTrainer.collect_rollout, whenever a step() returns terminated or     *)
(* truncated the trainer calls reset() before it issues the next step();   *)
(* so the step counter the trainer sees never exceeds the step budget, and *)
(* no step() is issued on an episode that is over (its resource exhausted  *)
(* or its budget used up).                                                 *)

\* the last step() returned a raised flag for some agent
FlagRaised ==
    \E i \in Agents(scn) : ret.terminated[i] \/ ret.truncated[i]

\* the episode is over: a resource is exhausted or the budget is used up
EpisodeOver ==
    \/ step_count >= MaxSteps(scn)
    \/ \E i \in Agents(scn) : TerminationCondition(i)

C39_DriverProtocol ==
    /\ [](driver = "trainer" => step_count <= MaxSteps(scn))
    /\ [][(Called /\ driver = "trainer" /\ IsStep /\ FlagRaised) =>
             call'.op = "reset"]_vars
    /\ [][(Called /\ driver = "trainer" /\ StepCalled') => ~EpisodeOver]_vars

\* the trainer has reset BunnyGarden after the step() that used up the budget
C39_Witness ==
    /\ driver = "trainer" /\ scn = "bunny"
    /\ call.op = "reset" /\ step_count = 0
    /\ ret.truncated[0] /\ ret.terminated[0]

====
